---- MODULE Spec2Model ----
(***************************************************************************)
(* Model of src/gateway.py: the escrow store (DatabaseService), the        *)
(* acquirer router and the escrow ledger (GatewayMultiAdquirente), the     *)
(* token oracle (VerificadorTokenWeb3) and the routes checkout and         *)
(* consultar_escrow.                                                       *)
(*                                                                         *)
(* Every inbound call is a process with its own local variables.  A call   *)
(* takes one step per blocking operation of the code: an HTTP request to   *)
(* an acquirer or to the custodian (PSP), or one statement sent to the     *)
(* database: the query of buscar_por_codigo, the INSERT and COMMIT of      *)
(* criar_escrow, the SELECT of atualizar_status, and its UPDATE and        *)
(* COMMIT.  Calls interleave between those steps, as the handlers of a     *)
(* threaded server do; nothing in the code serialises them.  Every         *)
(* statement sent to the database may fail.                                *)
(***************************************************************************)
EXTENDS Integers, Sequences, FiniteSets, TLC

\* ------------------------------------------------------------------ bounds
\* Number of inbound calls the model follows (each call slot is used once).
MaxCalls == 2

Calls == 1..MaxCalls

\* Number of those calls that may come in through the checkout route.
MaxCheckouts == 1

\* ------------------------------------------------------------- constants
\* Python's None, and a key that a returned dict does not carry.
NoneVal == "None"
Ausente == "<ausente>"

\* GatewayMultiAdquirente.__init__: self.roteamento_prioritario
roteamento_prioritario == <<"AdquirenteA", "AdquirenteB">>

\* The values EscrowModel.status_escrow takes in the code.
StatusValidos == {"PENDENTE", "TAXA_LIBERADA", "FINALIZADO", "CANCELADO"}

\* Config: the fee rates, in percent, and the token balance that makes a holder.
TAXA_COM_TOKEN == 2
TAXA_SEM_TOKEN == 5
MIN_BALANCE_UNITS == 100

\* The error strings of checkout's validation.
ErroCardToken ==
    "Token do cartao (card_token) nao fornecido. O frontend deve tokenizar primeiro."
ErroValorProduto == "Valor do produto invalido"
ErroFornecedor == "ID do fornecedor nao informado"

\* checkout, lines 885-886: the answer to an exception raised anywhere in the
\* route; "str(e)" stands for the text of the exception caught.
ErroNoProcessamento == "Erro no processamento: " \o "str(e)"

\* The error strings of verificar_posse_token; "str(e)" stands for the text of
\* the exception caught.
ErroWeb3Indisponivel == "Servico Web3 nao disponivel"
ErroEnderecoInvalido == "Endereco de carteira invalido"
ErroLeitura == "Erro na leitura da blockchain: " \o "str(e)"

\* The error strings of the release operations.
ErroNaoEncontrado == "Codigo de escrow nao encontrado"
ErroCancelado == "Escrow cancelado, liberacao nao permitida"
ErroFinalizado == "Escrow ja foi finalizado anteriormente"
ErroTodosFalharam == "Todos os adquirentes falharam ao processar o pagamento"

\* The error strings of consultar_escrow.
ErroConsulta == "Escrow nao encontrado"
ErroAoConsultar == "Erro ao consultar escrow: " \o "str(e)"

\* ------------------------------------------------- the environment's inputs
\* An HTTP exchange as requests.post leaves it: a response with a status code
\* and a body, or an exception (timeout, connection error, unparsable body).
Http(status_code, corpo) ==
    [tipo |-> "http", status_code |-> status_code, corpo |-> corpo]
Excecao == [tipo |-> "excecao", status_code |-> 0, corpo |-> "str(e)"]
SemResposta == [tipo |-> "nenhuma", status_code |-> 0, corpo |-> NoneVal]

\* Transaction references an acquirer may assign ('id' of the response body).
TxIds == {"TX_1"}

\* What an acquirer may answer to POST /v1/payments.
RespostasAdquirente ==
    {Http(sc, id) : sc \in {200, 201}, id \in TxIds}
        \cup {Http(402, "recusado"), Excecao}

\* Escrow codes the custodian may put in its answer to /escrow/create.  Ausente:
\* the body has no "escrow_code" key; NoneVal: the key holds null.
CodigosPsp == {"PSP_1", Ausente, NoneVal}

\* What the custodian may answer to POST /escrow/create.
RespostasPspCriar ==
    {Http(sc, cod) : sc \in {200, 201}, cod \in CodigosPsp}
        \cup {Http(500, "erro psp"), Excecao}

\* What the custodian may answer to POST /escrow/<code>/release.
RespostasPspLiberar ==
    {Http(200, "ok"), Http(201, "created"), Http(500, "erro psp"), Excecao}

\* Amounts are exact decimals on two grids.  The amount a checkout body
\* carries is counted in units of 0.0001 of the currency (100 units are one
\* cent).  Every amount the program holds after float() (valor_produto,
\* valor_taxa, valor_total, the payloads, the columns of a record, what a
\* release reports) is counted on a grid Escala times finer, in units of
\* 0.000001, on which a fee of a whole percentage of any body amount is
\* exact.  The last-bit rounding of the binary floats is not modelled.
Escala == 100

\* float() of a number of the body, on the program's grid.
Fino(valor) == valor * Escala

\* What checkout hands to processar_pagamento_escrow: id_fornecedor,
\* valor_taxa, valor_produto, and the "valor_total" of dados_transacao
\* (100.00 at 2%: 2.00, 100.00, 102.00).
Pedidos ==
    {[id_fornecedor |-> "FORN_1", valor_taxa |-> 2000000,
      valor_produto |-> 100000000, valor_total |-> 102000000]}
PedidoVazio ==
    [id_fornecedor |-> NoneVal, valor_taxa |-> 0, valor_produto |-> 0,
     valor_total |-> 0]

\* Product amounts a checkout body may carry: -1.00, 0, 100.00 and 10.005,
\* the last not a whole number of cents (its fee at 5% is 0.50025).
ValoresProduto == {-10000, 0, 1000000, 100050}

\* The JSON value under "valor_produto": a number (a missing key counts as
\* the number 0, the default of dados.get), or a value float() does not take
\* ('abc', null, a list).
Numero(n) == [tipo |-> "numero", valor |-> n]
NaoNumero == [tipo |-> "texto", valor |-> 0]

\* checkout, line 809: float(dados.get('valor_produto', 0)).  levantou: float
\* raised (ValueError or TypeError); valor: the float, on the program's grid.
Float(json) ==
    IF json.tipo = "numero"
    THEN [levantou |-> FALSE, valor |-> Fino(json.valor)]
    ELSE [levantou |-> TRUE, valor |-> 0]

\* Wallet addresses for which w3.is_address holds.
EnderecosValidos == {"0xCARTEIRA"}

\* What request.get_json() gives when the body is not a JSON object (null, a
\* list, a string): dados.get raises at line 802.
CorpoNaoObjeto ==
    [objeto |-> FALSE, card_token |-> NoneVal, valor_produto |-> Numero(0),
     id_fornecedor |-> NoneVal, endereco_carteira |-> NoneVal]

\* The JSON bodies of POST /api/checkout.  NoneVal: the key is missing or empty.
DadosCheckout ==
    [objeto : {TRUE},
     card_token : {NoneVal, "tok_1"},
     valor_produto : {Numero(n) : n \in ValoresProduto} \cup {NaoNumero},
     id_fornecedor : {NoneVal, "FORN_1"},
     endereco_carteira : {NoneVal, "0xCARTEIRA", "carteira?"}]
        \cup {CorpoNaoObjeto}
DadosVazios ==
    [objeto |-> TRUE, card_token |-> NoneVal, valor_produto |-> Numero(0),
     id_fornecedor |-> NoneVal, endereco_carteira |-> NoneVal]

\* What balanceOf(...).call() may give: a balance in whole tokens (saldo_raw
\* over 10 ** decimals), or an exception (node unreachable, revert, timeout).
Saldo(saldo) == [tipo |-> "saldo", saldo |-> saldo]
LeituraFalhou == [tipo |-> "excecao", saldo |-> 0]
Leituras == {Saldo(0), Saldo(99), Saldo(100), Saldo(101), LeituraFalhou}

\* A code that no record of the store ever carries.
CodigoDesconhecido == "ESC_X"

\* The code of the record a durable store may already hold at start-up.
CodigoInicial == "ESC_0"

\* ----------------------------------------------------------------- state
VARIABLES
    db,        \* the rows of table 'escrows', in insertion order
    relogio,   \* datetime.now(), as a logical clock: it ticks at each commit
    uuids,     \* number of uuid4 escrow codes generated so far
    calls      \* per call: its operation, position and local variables

vars == <<db, relogio, uuids, calls>>

\* ------------------------------------------------------ DatabaseService
\* EscrowModel(...): a row as criar_escrow builds it.
EscrowModel(id, codigo_escrow, transaction_id, id_fornecedor, valor_taxa, valor_produto, agora) ==
    [id |-> id, codigo_escrow |-> codigo_escrow,
     transaction_id |-> transaction_id, id_fornecedor |-> id_fornecedor,
     valor_taxa |-> valor_taxa, valor_produto |-> valor_produto,
     status_escrow |-> "PENDENTE",
     data_criacao |-> agora, data_atualizacao |-> agora]

\* The positions of the rows carrying a code.
Linhas(store, codigo_escrow) ==
    {k \in 1..Len(store) : store[k].codigo_escrow = codigo_escrow}

\* The first row a query filtered by code returns (.first()).
Primeira(store, codigo_escrow) ==
    CHOOSE k \in Linhas(store, codigo_escrow) :
        \A j \in Linhas(store, codigo_escrow) : k <= j

\* Table 'escrows' with the UNIQUE index on codigo_escrow dropped: only the
\* NOT NULL columns can refuse an INSERT.
InsertSemUnique(store, codigo_escrow, transaction_id, id_fornecedor) ==
    /\ codigo_escrow # NoneVal
    /\ transaction_id # NoneVal
    /\ id_fornecedor # NoneVal

\* The constraints of table 'escrows' that an INSERT can break: the NOT NULL
\* columns and the UNIQUE index on codigo_escrow.
InsertAceito(store, codigo_escrow, transaction_id, id_fornecedor) ==
    /\ codigo_escrow # NoneVal
    /\ transaction_id # NoneVal
    /\ id_fornecedor # NoneVal
    /\ Linhas(store, codigo_escrow) = {}

\* DatabaseService.criar_escrow, lines 193-205: session.add and
\* session.commit, the INSERT.  commit_ok: whether the commit goes through
\* (FALSE: the engine raises, e.g. a locked or unreachable database).  Returns
\* the store and whether the row was committed; from then on every other
\* request sees the row.
criar_escrow_commit(store, codigo_escrow, transaction_id, id_fornecedor, valor_taxa, valor_produto, commit_ok, agora) ==
    IF commit_ok /\ InsertAceito(store, codigo_escrow, transaction_id, id_fornecedor)
    THEN [db |-> Append(store,
                   EscrowModel(Len(store) + 1, codigo_escrow, transaction_id,
                               id_fornecedor, valor_taxa, valor_produto, agora)),
          ok |-> TRUE]
    ELSE [db |-> store, ok |-> FALSE]

\* DatabaseService.criar_escrow as a whole, with no other request in between:
\* the commit, then session.refresh (line 206), the SELECT that follows it.
\* refresh_ok: whether that SELECT goes through (FALSE: it raises, with the
\* row already written).  Returns the store and whether the method returned
\* (TRUE) or raised (FALSE).
criar_escrow(store, codigo_escrow, transaction_id, id_fornecedor, valor_taxa, valor_produto, commit_ok, refresh_ok, agora) ==
    LET r == criar_escrow_commit(store, codigo_escrow, transaction_id,
                                 id_fornecedor, valor_taxa, valor_produto,
                                 commit_ok, agora)
    IN  [db |-> r.db, ok |-> r.ok /\ refresh_ok]

\* buscar_por_codigo with the filter on the code lost: the first row of the table.
buscar_sem_filtro(store, codigo_escrow, read_ok) ==
    IF ~read_ok THEN [levantou |-> TRUE, escrow |-> <<>>]
    ELSE [levantou |-> FALSE,
          escrow |-> IF store = <<>> THEN <<>> ELSE <<store[1]>>]

\* DatabaseService.buscar_por_codigo.  read_ok: whether the SELECT goes through
\* (FALSE: the engine raises, e.g. a locked or unreachable database, and the
\* method, which has no except clause, raises).  escrow is <<>> for None, else
\* <<row>>, a detached copy of the row as it is at the time of the query.
buscar_por_codigo(store, codigo_escrow, read_ok) ==
    IF ~read_ok THEN [levantou |-> TRUE, escrow |-> <<>>]
    ELSE [levantou |-> FALSE,
          escrow |-> IF Linhas(store, codigo_escrow) = {}
                     THEN <<>>
                     ELSE <<store[Primeira(store, codigo_escrow)]>>]

\* DatabaseService.atualizar_status, lines 242-244: the SELECT that loads the
\* row into the session; the same query as buscar_por_codigo.
atualizar_status_select(store, codigo_escrow, read_ok) ==
    buscar_por_codigo(store, codigo_escrow, read_ok)

\* The position of the row with a primary key.
PorId(store, id) == CHOOSE k \in 1..Len(store) : store[k].id = id

\* atualizar_status also blanking the row's transaction reference.
atualizar_status_regrava(store, lido, novo_status, commit_ok, agora) ==
    IF lido.levantou \/ lido.escrow = <<>>
    THEN [db |-> store, ok |-> FALSE]
    ELSE IF ~commit_ok
    THEN [db |-> store, ok |-> FALSE]
    ELSE [db |-> [store EXCEPT ![PorId(store, lido.escrow[1].id)] =
                     [@ EXCEPT !.status_escrow =
                                   IF novo_status # lido.escrow[1].status_escrow
                                   THEN novo_status ELSE @,
                               !.transaction_id = NoneVal,
                               !.data_atualizacao = agora]],
          ok |-> TRUE]

\* DatabaseService.atualizar_status, lines 246-266, after the SELECT gave
\* `lido`.  A failed SELECT and a missing row return False.  Otherwise the
\* commit flushes an UPDATE of the row with the loaded primary key, carrying
\* the columns whose value differs from the loaded one: data_atualizacao,
\* and status_escrow when novo_status is not the status that was loaded.  A
\* failed commit is rolled back and False returned.
atualizar_status(store, lido, novo_status, commit_ok, agora) ==
    IF lido.levantou \/ lido.escrow = <<>>
    THEN [db |-> store, ok |-> FALSE]
    ELSE IF ~commit_ok
    THEN [db |-> store, ok |-> FALSE]
    ELSE [db |-> [store EXCEPT ![PorId(store, lido.escrow[1].id)] =
                     [@ EXCEPT !.status_escrow =
                                   IF novo_status # lido.escrow[1].status_escrow
                                   THEN novo_status ELSE @,
                               !.data_atualizacao = agora]],
          ok |-> TRUE]

\* The status the store holds for a code (NoneVal when it holds no such row).
StatusPersistido(store, codigo_escrow) ==
    IF Linhas(store, codigo_escrow) = {}
    THEN NoneVal
    ELSE store[Primeira(store, codigo_escrow)].status_escrow

\* ------------------------------------------------------- returned dicts
ResultadoVazio ==
    [sucesso |-> FALSE, erro |-> Ausente, adquirente |-> Ausente,
     transaction_id |-> Ausente, codigo_escrow |-> Ausente, status |-> Ausente,
     novo_status |-> Ausente, valor_liberado |-> Ausente,
     status_atual |-> Ausente, liberado_para |-> Ausente, levantou |-> FALSE]

\* liberar_taxa / liberar_produto_fornecedor: no dict is returned, the
\* exception of buscar_por_codigo leaves the method (the route answers 500).
Levantou == [ResultadoVazio EXCEPT !.levantou = TRUE, !.erro = "str(e)"]

\* processar_pagamento_escrow: the dict returned after an approval.
RetornoAprovado(adquirente, transaction_id, codigo_escrow) ==
    [ResultadoVazio EXCEPT !.sucesso = TRUE, !.adquirente = adquirente,
                           !.transaction_id = transaction_id,
                           !.codigo_escrow = codigo_escrow,
                           !.status = "em_custodia"]

\* processar_pagamento_escrow: the dict returned when the loop runs out.
RetornoNegado ==
    [ResultadoVazio EXCEPT !.erro = ErroTodosFalharam, !.status = "negado"]

\* liberar_taxa / liberar_produto_fornecedor: the not-found dict.
RetornoNaoEncontrado(codigo_escrow) ==
    [ResultadoVazio EXCEPT !.erro = ErroNaoEncontrado,
                           !.codigo_escrow = codigo_escrow]

\* liberar_taxa / liberar_produto_fornecedor: the terminal-status dicts.
RetornoBloqueado(status_escrow) ==
    [ResultadoVazio EXCEPT
        !.erro = IF status_escrow = "CANCELADO" THEN ErroCancelado
                 ELSE ErroFinalizado,
        !.status_atual = status_escrow]

\* liberar_taxa / liberar_produto_fornecedor: the custodian's error, as text.
ErroPsp(response) ==
    IF response.tipo = "excecao" THEN "str(e)" ELSE response.corpo

RetornoFalhaPsp(response) ==
    [ResultadoVazio EXCEPT !.erro = ErroPsp(response)]

\* liberar_taxa / liberar_produto_fornecedor: the success dict.
RetornoLiberado(codigo_escrow, liberado_para, valor_liberado, novo_status) ==
    [ResultadoVazio EXCEPT !.sucesso = TRUE, !.codigo_escrow = codigo_escrow,
                           !.liberado_para = liberado_para,
                           !.valor_liberado = valor_liberado,
                           !.novo_status = novo_status]

\* ---------------------------------------------------------------- calls
\* The resposta dict of a call that has not asked any acquirer yet.
RespostaVazia ==
    [transaction_id |-> NoneVal, adquirente |-> Ausente, error |-> Ausente,
     status_code |-> Ausente]

\* The locals of checkout before the request is read.  rota tells that the
\* call came in through /api/checkout, verificacoes counts the calls of
\* verificar_posse_token and consultas the balanceOf requests it sent; the
\* code does not read them.
CheckoutVazio ==
    [rota |-> FALSE, dados |-> DadosVazios, erro |-> Ausente, web3_erro |-> Ausente,
     is_token_holder |-> FALSE, percentual_taxa |-> 0,
     valor_produto |-> 0, valor_taxa |-> 0, valor_total |-> 0,
     verificacoes |-> 0, consultas |-> 0]

\* The answer of consultar_escrow, before the route has run.
SemConsulta == [status |-> 0, corpo |-> NoneVal]

\* _enviar_para_adquirente: the amount of the payment request's payload.
PayloadAdquirente(dados_transacao) ==
    [transaction_amount |-> dados_transacao.valor_total]

\* The payload of /escrow/create with the two amounts in each other's split.
PayloadPspTrocado(codigo_escrow, transaction_id, id_fornecedor, valor_taxa, valor_produto) ==
    [escrow_code |-> codigo_escrow,
     transaction_id |-> transaction_id,
     total_amount |-> valor_taxa + valor_produto,
     splits |-> <<[recipient_id |-> "APP_BASE44", amount |-> valor_produto],
                  [recipient_id |-> id_fornecedor, amount |-> valor_taxa]>>]

\* _registrar_escrow: the payload of /escrow/create, the total and the two
\* held splits.
PayloadPsp(codigo_escrow, transaction_id, id_fornecedor, valor_taxa, valor_produto) ==
    [escrow_code |-> codigo_escrow,
     transaction_id |-> transaction_id,
     total_amount |-> valor_taxa + valor_produto,
     splits |-> <<[recipient_id |-> "APP_BASE44", amount |-> valor_taxa],
                  [recipient_id |-> id_fornecedor, amount |-> valor_produto]>>]
SemPayload == PayloadPsp(NoneVal, NoneVal, NoneVal, 0, 0)

\* What the session of atualizar_status holds before its SELECT.
SemSessao == [levantou |-> FALSE, escrow |-> <<>>, agora |-> 0]

\* A call that has not arrived yet.  sessao: what the SELECT of
\* atualizar_status loaded, while the call is inside atualizar_status.  aviso: liberar_produto_fornecedor printed
\* its warning "Liberando produto antes da taxa"; consulta: the answer of
\* consultar_escrow.  tentativas, falhas, psp_calls, db_writes
\* and solo record what the call did and met; the code does not read them.
\* solo: while the call is in flight, no other call was in flight at any
\* time since it arrived; a returned call no longer carries it.
\* cobrado: the transaction_amount of the call's last request to an acquirer;
\* payload: what _registrar_escrow sent to /escrow/create (kept until
\* criar_escrow has committed or failed).
CallIdle ==
    [op |-> "nenhum", pc |-> "idle",
     codigo_escrow |-> NoneVal, escrow_db |-> <<>>,
     aviso |-> FALSE, consulta |-> SemConsulta,
     i |-> 0, pedido |-> PedidoVazio,
     cobrado |-> 0, payload |-> SemPayload,
     sessao |-> SemSessao,
     sucesso |-> FALSE, resposta |-> RespostaVazia,
     response |-> SemResposta,
     resultado |-> ResultadoVazio,
     checkout |-> CheckoutVazio,
     tentativas |-> <<>>, falhas |-> <<>>,
     psp_calls |-> 0, db_writes |-> 0, solo |-> TRUE]

\* Calls are numbered in the order they arrive.
Chega(c) ==
    /\ calls[c].pc = "idle"
    /\ \A d \in Calls : d < c => calls[d].pc # "idle"

\* The calls in flight: arrived and not yet returned.
EmCurso == {c \in Calls : calls[c].pc \notin {"idle", "done"}}

\* The calls after call c has arrived as record `chegada`: c and every call in
\* flight have met another call, unless c arrived alone.
Entra(c, chegada) ==
    [d \in Calls |->
        IF d = c THEN [chegada EXCEPT !.solo = (chegada.pc = "done" \/ EmCurso = {})]
        ELSE IF d \in EmCurso THEN [calls[d] EXCEPT !.solo = FALSE]
        ELSE calls[d]]

\* A call returns its result.
Retorna(call, resultado) ==
    [call EXCEPT !.pc = "done", !.resultado = resultado, !.solo = TRUE]

\* The store when the process starts: empty (create_all on a new database),
\* or the durable file of an earlier run, which create_all leaves as it is:
\* a record in any of the four statuses.
Init ==
    /\ db \in {<<>>} \cup
              {<<[EscrowModel(1, CodigoInicial, "TX_0", "FORN_0", 2000000, 100000000, 0)
                    EXCEPT !.status_escrow = s]>> : s \in StatusValidos}
    /\ relogio = 1
    /\ uuids = 0
    /\ calls = [c \in Calls |-> CallIdle]

\* ------------------------------------------- GatewayMultiAdquirente: payment
\* _enviar_para_adquirente with an except branch that reports the fields of
\* the exchange itself instead of the 500 tag.
EnviarSemMarca(nome_adquirente, response) ==
    IF response.tipo = "http" /\ response.status_code \in {200, 201}
    THEN [sucesso |-> TRUE,
          resposta |-> [transaction_id |-> response.corpo,
                        adquirente |-> nome_adquirente,
                        error |-> Ausente, status_code |-> Ausente]]
    ELSE [sucesso |-> FALSE,
          resposta |-> [transaction_id |-> NoneVal, adquirente |-> Ausente,
                        error |-> response.corpo,
                        status_code |-> response.status_code]]

\* _enviar_para_adquirente: the (sucesso, resposta) pair built from what
\* requests.post gave.  A body without 'id' yields transaction_id None.
EnviarParaAdquirente(nome_adquirente, response) ==
    IF response.tipo = "http" /\ response.status_code \in {200, 201}
    THEN [sucesso |-> TRUE,
          resposta |-> [transaction_id |-> response.corpo,
                        adquirente |-> nome_adquirente,
                        error |-> Ausente, status_code |-> Ausente]]
    ELSE IF response.tipo = "http"
    THEN [sucesso |-> FALSE,
          resposta |-> [transaction_id |-> NoneVal, adquirente |-> Ausente,
                        error |-> response.corpo,
                        status_code |-> response.status_code]]
    ELSE [sucesso |-> FALSE,
          resposta |-> [transaction_id |-> NoneVal, adquirente |-> Ausente,
                        error |-> "str(e)", status_code |-> 500]]

\* The loop with the return after an approval lost: it goes on to the next
\* acquirer while there is one.
RoteiaSemRetorno(call, sucesso, resposta) ==
    LET tentado == [call EXCEPT
                      !.sucesso = sucesso, !.resposta = resposta,
                      !.tentativas = Append(@, roteamento_prioritario[call.i]),
                      !.falhas = IF sucesso THEN @
                                 ELSE Append(@, roteamento_prioritario[call.i])]
    IN  IF call.i < Len(roteamento_prioritario)
        THEN [tentado EXCEPT !.i = call.i + 1]
        ELSE IF sucesso
        THEN [tentado EXCEPT !.pc = "psp_create"]
        ELSE Retorna(tentado, RetornoNegado)

\* The loop giving up at the first failure: the denial is returned without
\* asking the acquirers left.
RoteiaDesiste(call, sucesso, resposta) ==
    LET tentado == [call EXCEPT
                      !.sucesso = sucesso, !.resposta = resposta,
                      !.tentativas = Append(@, roteamento_prioritario[call.i]),
                      !.falhas = IF sucesso THEN @
                                 ELSE Append(@, roteamento_prioritario[call.i])]
    IN  IF sucesso
        THEN [tentado EXCEPT !.pc = "psp_create"]
        ELSE Retorna(tentado, RetornoNegado)

\* The loop registering the escrow whatever the last acquirer answered.
RoteiaRegistraSempre(call, sucesso, resposta) ==
    LET tentado == [call EXCEPT
                      !.sucesso = sucesso, !.resposta = resposta,
                      !.tentativas = Append(@, roteamento_prioritario[call.i]),
                      !.falhas = IF sucesso THEN @
                                 ELSE Append(@, roteamento_prioritario[call.i])]
    IN  IF sucesso
        THEN [tentado EXCEPT !.pc = "psp_create"]
        ELSE IF call.i < Len(roteamento_prioritario)
        THEN [tentado EXCEPT !.i = call.i + 1]
        ELSE [tentado EXCEPT !.pc = "psp_create"]

\* The loop asking the same acquirer once more after its first failure.
RoteiaRepete(call, sucesso, resposta) ==
    LET tentado == [call EXCEPT
                      !.sucesso = sucesso, !.resposta = resposta,
                      !.tentativas = Append(@, roteamento_prioritario[call.i]),
                      !.falhas = IF sucesso THEN @
                                 ELSE Append(@, roteamento_prioritario[call.i])]
    IN  IF sucesso
        THEN [tentado EXCEPT !.pc = "psp_create"]
        ELSE IF Len(call.tentativas) + 1 < 2 * call.i
        THEN tentado
        ELSE IF call.i < Len(roteamento_prioritario)
        THEN [tentado EXCEPT !.i = call.i + 1]
        ELSE Retorna(tentado, RetornoNegado)

\* processar_pagamento_escrow: one turn of the loop over
\* roteamento_prioritario, after acquirer number call.i has answered.  On
\* success the call goes on to _registrar_escrow; on failure to the next
\* acquirer, or returns the denial when there is none left.
Roteia(call, sucesso, resposta) ==
    LET tentado == [call EXCEPT
                      !.sucesso = sucesso, !.resposta = resposta,
                      !.tentativas = Append(@, roteamento_prioritario[call.i]),
                      !.falhas = IF sucesso THEN @
                                 ELSE Append(@, roteamento_prioritario[call.i])]
    IN  IF sucesso
        THEN [tentado EXCEPT !.pc = "psp_create"]
        ELSE IF call.i < Len(roteamento_prioritario)
        THEN [tentado EXCEPT !.i = call.i + 1]
        ELSE Retorna(tentado, RetornoNegado)

\* _registrar_escrow: the local code, "ESC_" and 16 hex digits of a fresh uuid4.
\* A call generates one code, no two calls the same one and none the code of
\* a record of an earlier run: the code is named after call n.
CodigoLocal(n) == "ESC_" \o ToString(n)

\* _registrar_escrow keeping its local code whatever the custodian answered.
CodigoSempreLocal(codigo_escrow, response) == codigo_escrow

\* _registrar_escrow: the code kept after the custodian's answer.  A 200/201
\* answer replaces the local code by the body's "escrow_code" (the local code
\* is the default when the key is missing); any other outcome keeps it.
CodigoAposPsp(codigo_escrow, response) ==
    IF response.tipo = "http" /\ response.status_code \in {200, 201}
    THEN IF response.corpo = Ausente THEN codigo_escrow ELSE response.corpo
    ELSE codigo_escrow

\* A processPayment call arrives.
ProcessarPagamento(c, pedido) ==
    /\ Chega(c)
    /\ calls' = Entra(c, [calls[c] EXCEPT !.op = "pagamento",
                                          !.pc = "adquirente", !.i = 1,
                                          !.pedido = pedido])
    /\ UNCHANGED <<db, relogio, uuids>>

\* processar_pagamento_escrow: the request to the next acquirer and the
\* routing decision on its answer.
TentarAdquirente(c, response) ==
    /\ calls[c].op = "pagamento"
    /\ calls[c].pc = "adquirente"
    /\ LET payload == PayloadAdquirente(calls[c].pedido)
           r == EnviarParaAdquirente(roteamento_prioritario[calls[c].i], response)
       IN  calls' = [calls EXCEPT ![c] =
                       Roteia([@ EXCEPT !.cobrado = payload.transaction_amount],
                              r.sucesso, r.resposta)]
    /\ UNCHANGED <<db, relogio, uuids>>

\* _registrar_escrow, first half: the local code and the custodian's
\* /escrow/create request.
RegistrarNoPsp(c, response) ==
    /\ calls[c].op = "pagamento"
    /\ calls[c].pc = "psp_create"
    /\ uuids' = uuids + 1
    /\ calls' = [calls EXCEPT ![c] =
                   [@ EXCEPT !.pc = "db_create",
                             !.payload =
                                 PayloadPsp(CodigoLocal(c),
                                            calls[c].resposta.transaction_id,
                                            calls[c].pedido.id_fornecedor,
                                            calls[c].pedido.valor_taxa,
                                            calls[c].pedido.valor_produto),
                             !.codigo_escrow =
                                 CodigoAposPsp(CodigoLocal(c), response),
                             !.psp_calls = @ + 1]]
    /\ UNCHANGED <<db, relogio>>

\* _registrar_escrow letting the exception of criar_escrow through: the call
\* returns a failure when the record could not be written.
RegistrarNoBancoPropaga(c, commit_ok) ==
    /\ calls[c].op = "pagamento"
    /\ calls[c].pc = "db_create"
    /\ LET call == calls[c]
           r == criar_escrow_commit(db, call.codigo_escrow,
                                    call.resposta.transaction_id,
                                    call.pedido.id_fornecedor,
                                    call.pedido.valor_taxa,
                                    call.pedido.valor_produto, commit_ok, relogio)
           escrito == [call EXCEPT !.db_writes = @ + 1,
                                   !.payload = SemPayload]
       IN  /\ db' = r.db
           /\ calls' = [calls EXCEPT ![c] =
                          IF r.ok
                          THEN [escrito EXCEPT !.pc = "db_refresh"]
                          ELSE Retorna(escrito,
                                       [ResultadoVazio EXCEPT !.erro = "str(e)"])]
           /\ relogio' = IF r.ok THEN relogio + 1 ELSE relogio
    /\ UNCHANGED uuids

\* _registrar_escrow, second half: criar_escrow up to its commit.  When the
\* commit raises, the exception is swallowed by _registrar_escrow and
\* processar_pagamento_escrow returns the approval; when it goes through, the
\* row is in the table and the call goes on to session.refresh.
RegistrarNoBanco(c, commit_ok) ==
    /\ calls[c].op = "pagamento"
    /\ calls[c].pc = "db_create"
    /\ LET call == calls[c]
           r == criar_escrow_commit(db, call.codigo_escrow,
                                    call.resposta.transaction_id,
                                    call.pedido.id_fornecedor,
                                    call.pedido.valor_taxa,
                                    call.pedido.valor_produto, commit_ok, relogio)
           escrito == [call EXCEPT !.db_writes = @ + 1,
                                   !.payload = SemPayload]
       IN  /\ db' = r.db
           /\ calls' = [calls EXCEPT ![c] =
                          IF r.ok
                          THEN [escrito EXCEPT !.pc = "db_refresh"]
                          ELSE Retorna(escrito,
                                       RetornoAprovado(roteamento_prioritario[call.i],
                                                       call.resposta.transaction_id,
                                                       call.codigo_escrow))]
           /\ relogio' = IF r.ok THEN relogio + 1 ELSE relogio
    /\ UNCHANGED uuids

\* criar_escrow, line 206: session.refresh, the SELECT after the commit.
\* Whether it goes through or raises (the exception is swallowed by
\* _registrar_escrow, the row stays written), processar_pagamento_escrow
\* returns the approval.
RegistrarRefresh(c, refresh_ok) ==
    /\ calls[c].op = "pagamento"
    /\ calls[c].pc = "db_refresh"
    /\ LET call == calls[c]
       IN  calls' = [calls EXCEPT ![c] =
                       Retorna(call,
                               RetornoAprovado(roteamento_prioritario[call.i],
                                               call.resposta.transaction_id,
                                               call.codigo_escrow))]
    /\ UNCHANGED <<db, relogio, uuids>>

\* ------------------------------------------- GatewayMultiAdquirente: release
\* The guards of liberar_taxa also refusing a record whose fee is released.
ValidacaoTaxaBloqueiaLiberada(escrow_db, codigo_escrow) ==
    IF escrow_db = <<>>
    THEN <<RetornoNaoEncontrado(codigo_escrow)>>
    ELSE IF escrow_db[1].status_escrow \in {"CANCELADO", "FINALIZADO", "TAXA_LIBERADA"}
    THEN <<RetornoBloqueado(escrow_db[1].status_escrow)>>
    ELSE <<>>

\* The guards of liberar_taxa with the test for FINALIZADO lost.
ValidacaoTaxaSemFinalizado(escrow_db, codigo_escrow) ==
    IF escrow_db = <<>>
    THEN <<RetornoNaoEncontrado(codigo_escrow)>>
    ELSE IF escrow_db[1].status_escrow = "CANCELADO"
    THEN <<RetornoBloqueado(escrow_db[1].status_escrow)>>
    ELSE <<>>

\* liberar_taxa, lines 544-568: the dict returned by the guards, as <<dict>>,
\* or <<>> when the call goes on to the custodian.
ValidacaoTaxa(escrow_db, codigo_escrow) ==
    IF escrow_db = <<>>
    THEN <<RetornoNaoEncontrado(codigo_escrow)>>
    ELSE IF escrow_db[1].status_escrow = "CANCELADO"
    THEN <<RetornoBloqueado(escrow_db[1].status_escrow)>>
    ELSE IF escrow_db[1].status_escrow = "FINALIZADO"
    THEN <<RetornoBloqueado(escrow_db[1].status_escrow)>>
    ELSE <<>>

\* liberar_produto_fornecedor, lines 612-639: the same guards; a status other
\* than TAXA_LIBERADA only prints a warning.
ValidacaoProduto(escrow_db, codigo_escrow) ==
    IF escrow_db = <<>>
    THEN <<RetornoNaoEncontrado(codigo_escrow)>>
    ELSE IF escrow_db[1].status_escrow = "CANCELADO"
    THEN <<RetornoBloqueado(escrow_db[1].status_escrow)>>
    ELSE IF escrow_db[1].status_escrow = "FINALIZADO"
    THEN <<RetornoBloqueado(escrow_db[1].status_escrow)>>
    ELSE <<>>

\* The test of _registrar_escrow (200 or 201) used for the release.
PspLiberouTaxa2xx(response) ==
    response.tipo = "http" /\ response.status_code \in {200, 201}

\* liberar_taxa: whether the custodian's answer lets the call go on to the
\* status update (status code 200; anything else, or an exception, returns).
PspLiberouTaxa(response) ==
    response.tipo = "http" /\ response.status_code = 200

\* liberar_produto_fornecedor: the same test.
PspLiberouProduto(response) ==
    response.tipo = "http" /\ response.status_code = 200

\* The codes a caller can ask about: every code in the store, and one that is
\* in no record.
CodigosPedidos == {db[k].codigo_escrow : k \in 1..Len(db)} \cup {CodigoDesconhecido}

\* The first step of a release call made atomic with the write: a call that
\* finds another release of the same code past its guards is refused.
ValidaComTrava(call, op, codigo_escrow, validacao, leitura) ==
    LET lido == [call EXCEPT !.op = op, !.codigo_escrow = codigo_escrow,
                             !.escrow_db = leitura.escrow]
    IN  IF leitura.levantou
        THEN Retorna(lido, Levantou)
        ELSE IF validacao # <<>>
        THEN Retorna(lido, validacao[1])
        ELSE IF \E d \in Calls : /\ calls[d].op \in {"taxa", "produto"}
                                 /\ calls[d].pc \in {"psp_release", "db_select", "db_update"}
                                 /\ calls[d].codigo_escrow = codigo_escrow
        THEN Retorna(lido, RetornoBloqueado("FINALIZADO"))
        ELSE [lido EXCEPT !.pc = "psp_release"]

\* The first step of a release call: buscar_por_codigo, whose exception
\* leaves the method, and the guards on the copy it returned.
Valida(call, op, codigo_escrow, validacao, leitura) ==
    LET lido == [call EXCEPT !.op = op, !.codigo_escrow = codigo_escrow,
                             !.escrow_db = leitura.escrow]
    IN  IF leitura.levantou
        THEN Retorna(lido, Levantou)
        ELSE IF validacao = <<>>
        THEN [lido EXCEPT !.pc = "psp_release"]
        ELSE Retorna(lido, validacao[1])

\* The second half of a release call, first step: atualizar_status is
\* entered and its SELECT runs.  When the SELECT raises or finds no row,
\* atualizar_status returns False and the call returns its success dict.
\* Otherwise the row is changed in the session and datetime.now() is read
\* for data_atualizacao (line 252), before the commit: `agora` is that time.
Seleciona(call, lido, retorno, agora) ==
    IF lido.levantou \/ lido.escrow = <<>>
    THEN Retorna([call EXCEPT !.db_writes = @ + 1], retorno)
    ELSE [call EXCEPT !.pc = "db_update",
                      !.sessao = [levantou |-> lido.levantou,
                                  escrow |-> lido.escrow, agora |-> agora]]

\* liberar_taxa: a releaseFee call arrives, reads the record and checks it.
LiberarTaxaValida(c, codigo_escrow, read_ok) ==
    /\ Chega(c)
    /\ LET leitura == buscar_por_codigo(db, codigo_escrow, read_ok)
       IN  calls' = Entra(c, Valida(calls[c], "taxa", codigo_escrow,
                                    ValidacaoTaxa(leitura.escrow, codigo_escrow),
                                    leitura))
    /\ UNCHANGED <<db, relogio, uuids>>

\* liberar_taxa: the custodian's release request for recipient APP_BASE44.
LiberarTaxaPsp(c, response) ==
    /\ calls[c].op = "taxa"
    /\ calls[c].pc = "psp_release"
    /\ LET chamado == [calls[c] EXCEPT !.response = response, !.psp_calls = @ + 1]
       IN  calls' = [calls EXCEPT ![c] =
                       IF PspLiberouTaxa(response)
                       THEN [chamado EXCEPT !.pc = "db_select"]
                       ELSE Retorna(chamado, RetornoFalhaPsp(response))]
    /\ UNCHANGED <<db, relogio, uuids>>

\* liberar_taxa, line 596: atualizar_status(codigo, 'TAXA_LIBERADA') loads
\* the row.
LiberarTaxaSelect(c, read_ok) ==
    /\ calls[c].op = "taxa"
    /\ calls[c].pc = "db_select"
    /\ LET call == calls[c]
       IN  calls' = [calls EXCEPT ![c] =
                       Seleciona(call,
                                 atualizar_status_select(db, call.codigo_escrow, read_ok),
                                 RetornoLiberado(call.codigo_escrow, "APP_BASE44",
                                                 call.escrow_db[1].valor_taxa,
                                                 "TAXA_LIBERADA"),
                                 relogio)]
    /\ UNCHANGED <<db, relogio, uuids>>

\* liberar_taxa: atualizar_status commits; its result is not looked at, and
\* the call returns the success dict.
LiberarTaxaBanco(c, commit_ok) ==
    /\ calls[c].op = "taxa"
    /\ calls[c].pc = "db_update"
    /\ LET call == calls[c]
           r == atualizar_status(db, call.sessao, "TAXA_LIBERADA",
                                 commit_ok, call.sessao.agora)
       IN  /\ db' = r.db
           /\ calls' = [calls EXCEPT ![c] =
                          Retorna([call EXCEPT !.db_writes = @ + 1,
                                                !.sessao = SemSessao],
                                  RetornoLiberado(call.codigo_escrow, "APP_BASE44",
                                                  call.escrow_db[1].valor_taxa,
                                                  "TAXA_LIBERADA"))]
           /\ relogio' = IF r.ok THEN relogio + 1 ELSE relogio
    /\ UNCHANGED uuids

\* liberar_produto_fornecedor, lines 638-639: past the guards, a status other
\* than TAXA_LIBERADA prints the warning; the call goes on all the same.
AvisoAntesDaTaxa(escrow_db) ==
    /\ ValidacaoProduto(escrow_db, NoneVal) = <<>>
    /\ escrow_db[1].status_escrow # "TAXA_LIBERADA"

\* liberar_produto_fornecedor: a releaseProduct call arrives, reads the record
\* and checks it.
LiberarProdutoValida(c, codigo_escrow, read_ok) ==
    /\ Chega(c)
    /\ LET leitura == buscar_por_codigo(db, codigo_escrow, read_ok)
       IN  calls' = Entra(c, [Valida(calls[c], "produto", codigo_escrow,
                                     ValidacaoProduto(leitura.escrow, codigo_escrow),
                                     leitura)
                                EXCEPT !.aviso = AvisoAntesDaTaxa(leitura.escrow)])
    /\ UNCHANGED <<db, relogio, uuids>>

\* liberar_produto_fornecedor: the custodian's release request for the supplier.
LiberarProdutoPsp(c, response) ==
    /\ calls[c].op = "produto"
    /\ calls[c].pc = "psp_release"
    /\ LET chamado == [calls[c] EXCEPT !.response = response, !.psp_calls = @ + 1]
       IN  calls' = [calls EXCEPT ![c] =
                       IF PspLiberouProduto(response)
                       THEN [chamado EXCEPT !.pc = "db_select"]
                       ELSE Retorna(chamado, RetornoFalhaPsp(response))]
    /\ UNCHANGED <<db, relogio, uuids>>

\* liberar_produto_fornecedor, line 667: atualizar_status(codigo,
\* 'FINALIZADO') loads the row.
LiberarProdutoSelect(c, read_ok) ==
    /\ calls[c].op = "produto"
    /\ calls[c].pc = "db_select"
    /\ LET call == calls[c]
       IN  calls' = [calls EXCEPT ![c] =
                       Seleciona(call,
                                 atualizar_status_select(db, call.codigo_escrow, read_ok),
                                 RetornoLiberado(call.codigo_escrow, "FORNECEDOR",
                                                 call.escrow_db[1].valor_produto,
                                                 "FINALIZADO"),
                                 relogio)]
    /\ UNCHANGED <<db, relogio, uuids>>

\* liberar_produto_fornecedor: atualizar_status commits; its result is not
\* looked at, and the call returns the success dict.
LiberarProdutoBanco(c, commit_ok) ==
    /\ calls[c].op = "produto"
    /\ calls[c].pc = "db_update"
    /\ LET call == calls[c]
           r == atualizar_status(db, call.sessao, "FINALIZADO",
                                 commit_ok, call.sessao.agora)
       IN  /\ db' = r.db
           /\ calls' = [calls EXCEPT ![c] =
                          Retorna([call EXCEPT !.db_writes = @ + 1,
                                                !.sessao = SemSessao],
                                  RetornoLiberado(call.codigo_escrow, "FORNECEDOR",
                                                  call.escrow_db[1].valor_produto,
                                                  "FINALIZADO"))]
           /\ relogio' = IF r.ok THEN relogio + 1 ELSE relogio
    /\ UNCHANGED uuids

\* ------------------------------------------------------------ consultation
\* to_dict leaving the status out.
to_dict_sem_status(escrow) ==
    [id |-> escrow.id, codigo_escrow |-> escrow.codigo_escrow,
     transaction_id |-> escrow.transaction_id,
     id_fornecedor |-> escrow.id_fornecedor,
     valor_taxa |-> escrow.valor_taxa, valor_produto |-> escrow.valor_produto,
     data_criacao |-> escrow.data_criacao,
     data_atualizacao |-> escrow.data_atualizacao]

\* EscrowModel.to_dict: the nine columns by name (isoformat of a logical time
\* is that time).
to_dict(escrow) ==
    [id |-> escrow.id, codigo_escrow |-> escrow.codigo_escrow,
     transaction_id |-> escrow.transaction_id,
     id_fornecedor |-> escrow.id_fornecedor,
     valor_taxa |-> escrow.valor_taxa, valor_produto |-> escrow.valor_produto,
     status_escrow |-> escrow.status_escrow,
     data_criacao |-> escrow.data_criacao,
     data_atualizacao |-> escrow.data_atualizacao]

\* consultar_escrow: the HTTP status and body for what buscar_por_codigo gave
\* (its exception is caught by the route and answered 500).
RespostaConsulta(leitura) ==
    IF leitura.levantou
    THEN [status |-> 500, corpo |-> ErroAoConsultar]
    ELSE IF leitura.escrow = <<>>
    THEN [status |-> 404, corpo |-> ErroConsulta]
    ELSE [status |-> 200, corpo |-> to_dict(leitura.escrow[1])]

\* consultar_escrow: GET /api/escrow/consultar/<codigo_escrow>, one query.
ConsultarEscrow(c, codigo_escrow, read_ok) ==
    /\ Chega(c)
    /\ calls' = Entra(c, [calls[c] EXCEPT
                            !.op = "consulta", !.pc = "done",
                            !.codigo_escrow = codigo_escrow,
                            !.consulta = RespostaConsulta(
                                buscar_por_codigo(db, codigo_escrow, read_ok))])
    /\ UNCHANGED <<db, relogio, uuids>>

\* ---------------------------------------------------------------- checkout
\* The validation with the test of id_fornecedor lost.
ValidacaoCheckoutSemFornecedor(dados) ==
    IF ~dados.objeto THEN ErroNoProcessamento
    ELSE IF dados.card_token = NoneVal THEN ErroCardToken
    ELSE IF Float(dados.valor_produto).levantou THEN ErroNoProcessamento
    ELSE IF Float(dados.valor_produto).valor <= 0 THEN ErroValorProduto
    ELSE Ausente

\* checkout, lines 800-818 and 885-886: the error the request is answered
\* with before anything else is done, in the order of the code, or Ausente
\* when the body passes: dados.get raises on a body that is no object (802),
\* card_token is missing (806), float() raises on valor_produto (809), the
\* amount is not positive (815), id_fornecedor is missing (818).  What is
\* raised is caught at line 885.
ValidacaoCheckout(dados) ==
    IF ~dados.objeto THEN ErroNoProcessamento
    ELSE IF dados.card_token = NoneVal THEN ErroCardToken
    ELSE IF Float(dados.valor_produto).levantou THEN ErroNoProcessamento
    ELSE IF Float(dados.valor_produto).valor <= 0 THEN ErroValorProduto
    ELSE IF dados.id_fornecedor = NoneVal THEN ErroFornecedor
    ELSE Ausente

\* An oracle that takes a failed read for a holder.
TokenHolderNaFalha(leitura) ==
    leitura.tipo = "excecao" \/ leitura.saldo >= MIN_BALANCE_UNITS

\* verificar_posse_token, lines 741-764: token_holder after balanceOf answered
\* (saldo >= MIN_BALANCE_UNITS) or raised (False).
TokenHolder(leitura) ==
    leitura.tipo = "saldo" /\ leitura.saldo >= MIN_BALANCE_UNITS

\* verificar_posse_token, lines 724-737: the error returned before any request
\* is sent, or Ausente when the balance is going to be read.  web3_ok: w3 and
\* contrato were set up when the process started.
ErroAntesDaLeitura(web3_ok, endereco_carteira) ==
    IF ~web3_ok THEN ErroWeb3Indisponivel
    ELSE IF endereco_carteira \notin EnderecosValidos THEN ErroEnderecoInvalido
    ELSE Ausente

\* The fee rates the wrong way round.
PercentualTaxaTrocado(is_token_holder) ==
    IF is_token_holder THEN TAXA_SEM_TOKEN ELSE TAXA_COM_TOKEN

\* checkout, lines 829-834: the fee rate.
PercentualTaxa(is_token_holder) ==
    IF is_token_holder THEN TAXA_COM_TOKEN ELSE TAXA_SEM_TOKEN

\* checkout, line 836: valor_produto * (percentual_taxa / 100), of the float
\* valor_produto.  The float is on the program's grid, a multiple of Escala =
\* 100 units whatever decimals the body's amount has, so the division is
\* exact and nothing is rounded or cut off.
ValorTaxa(valor_produto, percentual_taxa) ==
    (valor_produto * percentual_taxa) \div 100

\* checkout, lines 829-855: the fee, the total, and the call of
\* gateway.processar_pagamento_escrow.
CalculaTaxa(call, is_token_holder) ==
    LET dados == call.checkout.dados
        valor_produto == call.checkout.valor_produto
        percentual_taxa == PercentualTaxa(is_token_holder)
        valor_taxa == ValorTaxa(valor_produto, percentual_taxa)
    IN  [call EXCEPT
            !.op = "pagamento", !.pc = "adquirente", !.i = 1,
            !.pedido = [id_fornecedor |-> dados.id_fornecedor,
                        valor_taxa |-> valor_taxa,
                        valor_produto |-> valor_produto,
                        valor_total |-> valor_produto + valor_taxa],
            !.checkout.is_token_holder = is_token_holder,
            !.checkout.percentual_taxa = percentual_taxa,
            !.checkout.valor_taxa = valor_taxa,
            !.checkout.valor_total = valor_produto + valor_taxa]

\* checkout, lines 800-826 and 885-886: the request up to the point where it
\* returns 400 or 500, waits for the oracle's balanceOf, or goes on to the
\* gateway.
Recebe(call, dados, web3_ok) ==
    LET erro == ValidacaoCheckout(dados)
        lido == [call EXCEPT !.op = "checkout", !.checkout.rota = TRUE,
                             !.checkout.dados = dados,
                             !.checkout.valor_produto =
                                 IF erro \in {Ausente, ErroValorProduto, ErroFornecedor}
                                 THEN Float(dados.valor_produto).valor
                                 ELSE 0]
        web3_erro == ErroAntesDaLeitura(web3_ok, dados.endereco_carteira)
    IN  IF erro # Ausente
        THEN [lido EXCEPT !.pc = "done", !.checkout.erro = erro]
        ELSE IF dados.endereco_carteira = NoneVal
        THEN CalculaTaxa(lido, FALSE)
        ELSE IF web3_erro # Ausente
        THEN CalculaTaxa([lido EXCEPT !.checkout.verificacoes = @ + 1,
                                      !.checkout.web3_erro = web3_erro], FALSE)
        ELSE [lido EXCEPT !.pc = "oraculo", !.checkout.verificacoes = @ + 1]

\* checkout: a request arrives.
Checkout(c, dados, web3_ok) ==
    /\ Chega(c)
    /\ c <= MaxCheckouts
    /\ calls' = Entra(c, Recebe(calls[c], dados, web3_ok))
    /\ UNCHANGED <<db, relogio, uuids>>

\* verificar_posse_token: balanceOf answers or raises; checkout goes on with
\* the fee.
CheckoutOraculo(c, leitura) ==
    /\ calls[c].op = "checkout"
    /\ calls[c].pc = "oraculo"
    /\ calls' = [calls EXCEPT ![c] =
                   CalculaTaxa([@ EXCEPT
                                  !.checkout.consultas = @ + 1,
                                  !.checkout.web3_erro =
                                      IF leitura.tipo = "excecao"
                                      THEN ErroLeitura ELSE Ausente],
                               TokenHolder(leitura))]
    /\ UNCHANGED <<db, relogio, uuids>>

\* checkout, lines 857-886: the HTTP status of the response.
StatusCheckout(call) ==
    IF call.checkout.erro = ErroNoProcessamento THEN 500
    ELSE IF call.checkout.erro # Ausente THEN 400
    ELSE IF call.resultado.sucesso THEN 200
    ELSE 400

Next ==
    \E c \in Calls :
        \/ /\ calls[c].pc = "idle"
           /\ \E pedido \in Pedidos : ProcessarPagamento(c, pedido)
        \/ /\ calls[c].pc = "adquirente"
           /\ \E response \in RespostasAdquirente : TentarAdquirente(c, response)
        \/ /\ calls[c].pc = "psp_create"
           /\ \E response \in RespostasPspCriar : RegistrarNoPsp(c, response)
        \/ /\ calls[c].pc = "db_create"
           /\ \E commit_ok \in BOOLEAN : RegistrarNoBanco(c, commit_ok)
        \/ /\ calls[c].pc = "db_refresh"
           /\ \E refresh_ok \in BOOLEAN : RegistrarRefresh(c, refresh_ok)
        \/ /\ calls[c].pc = "idle"
           /\ \E codigo_escrow \in CodigosPedidos, read_ok \in BOOLEAN :
                 LiberarTaxaValida(c, codigo_escrow, read_ok)
        \/ /\ calls[c].pc = "psp_release"
           /\ \E response \in RespostasPspLiberar : LiberarTaxaPsp(c, response)
        \/ /\ calls[c].pc = "db_select"
           /\ \E read_ok \in BOOLEAN : LiberarTaxaSelect(c, read_ok)
        \/ /\ calls[c].pc = "db_update"
           /\ \E commit_ok \in BOOLEAN : LiberarTaxaBanco(c, commit_ok)
        \/ /\ calls[c].pc = "idle"
           /\ \E codigo_escrow \in CodigosPedidos, read_ok \in BOOLEAN :
                 LiberarProdutoValida(c, codigo_escrow, read_ok)
        \/ /\ calls[c].pc = "psp_release"
           /\ \E response \in RespostasPspLiberar : LiberarProdutoPsp(c, response)
        \/ /\ calls[c].pc = "db_select"
           /\ \E read_ok \in BOOLEAN : LiberarProdutoSelect(c, read_ok)
        \/ /\ calls[c].pc = "db_update"
           /\ \E commit_ok \in BOOLEAN : LiberarProdutoBanco(c, commit_ok)
        \/ /\ calls[c].pc = "idle"
           /\ \E codigo_escrow \in CodigosPedidos, read_ok \in BOOLEAN :
                 ConsultarEscrow(c, codigo_escrow, read_ok)

Spec == Init /\ [][Next]_vars

\* The requests that come in through /api/checkout, followed to their end.
NextCheckout ==
    \E c \in Calls :
        \/ /\ calls[c].pc = "idle"
           /\ \E dados \in DadosCheckout, web3_ok \in BOOLEAN : Checkout(c, dados, web3_ok)
        \/ /\ calls[c].pc = "oraculo"
           /\ \E leitura \in Leituras : CheckoutOraculo(c, leitura)
        \/ /\ calls[c].pc = "adquirente"
           /\ \E response \in RespostasAdquirente : TentarAdquirente(c, response)
        \/ /\ calls[c].pc = "psp_create"
           /\ \E response \in RespostasPspCriar : RegistrarNoPsp(c, response)
        \/ /\ calls[c].pc = "db_create"
           /\ \E commit_ok \in BOOLEAN : RegistrarNoBanco(c, commit_ok)
        \/ /\ calls[c].pc = "db_refresh"
           /\ \E refresh_ok \in BOOLEAN : RegistrarRefresh(c, refresh_ok)

\* The store of a first start-up: create_all on an empty database.
InitCheckout == Init /\ db = <<>>

SpecCheckout == InitCheckout /\ [][NextCheckout]_vars

\* ======================================================================
\* Properties
\* ======================================================================
Liberacoes == {"taxa", "produto"}

\* The position of a status in the order PENDENTE < TAXA_LIBERADA < FINALIZADO
\* (0: not in the order).
Ordem(status_escrow) ==
    CASE status_escrow = "PENDENTE" -> 1
      [] status_escrow = "TAXA_LIBERADA" -> 2
      [] status_escrow = "FINALIZADO" -> 3
      [] OTHER -> 0

\* The status the call read when it arrived.
StatusLido(call) == call.escrow_db[1].status_escrow

\* A custodian answer that lets a release go through: HTTP 200.
Aceite(response) == response.tipo = "http" /\ response.status_code = 200

\* A custodian answer that is a failure of the release.
Recusa(response) == response.tipo # "nenhuma" /\ ~Aceite(response)

\* Some acquirer has approved the payment of this call.
Aprovou(call) == Len(call.tentativas) > Len(call.falhas)

\* C1: every change of a record's persisted status is a forward step in the
\* order PENDENTE < TAXA_LIBERADA < FINALIZADO, whatever calls run and however
\* they interleave.
C1_StatusSoAvanca ==
    [][\A k \in 1..Len(db) :
          db'[k].status_escrow # db[k].status_escrow
              => /\ Ordem(db[k].status_escrow) > 0
                 /\ Ordem(db[k].status_escrow) < Ordem(db'[k].status_escrow)]_vars

\* C2: once a record's persisted status is FINALIZADO or CANCELADO, no later
\* step changes any field of the record.
C2_TerminalImutavel ==
    [][\A k \in 1..Len(db) :
          db[k].status_escrow \in {"FINALIZADO", "CANCELADO"}
              => db'[k] = db[k]]_vars

\* C3: a releaseFee call that met no other call, read PENDENTE and had its
\* release accepted by the custodian returns success and leaves
\* TAXA_LIBERADA persisted; a releaseProduct call that met no other call, read
\* TAXA_LIBERADA and had its release accepted returns success and leaves
\* FINALIZADO persisted.  Stated of the step in which the call returns, out
\* of atualizar_status.
C3_TaxaDepoisProduto ==
    [][\A c \in Calls :
          /\ (/\ calls[c].op = "taxa"
              /\ calls[c].pc \in {"db_select", "db_update"}
              /\ calls'[c].pc = "done"
              /\ calls[c].solo
              /\ StatusLido(calls[c]) = "PENDENTE")
                => /\ calls'[c].resultado.sucesso
                   /\ StatusPersistido(db, calls[c].codigo_escrow) = "PENDENTE"
                   /\ StatusPersistido(db', calls[c].codigo_escrow) = "TAXA_LIBERADA"
          /\ (/\ calls[c].op = "produto"
              /\ calls[c].pc \in {"db_select", "db_update"}
              /\ calls'[c].pc = "done"
              /\ calls[c].solo
              /\ StatusLido(calls[c]) = "TAXA_LIBERADA")
                => /\ calls'[c].resultado.sucesso
                   /\ StatusPersistido(db, calls[c].codigo_escrow) = "TAXA_LIBERADA"
                   /\ StatusPersistido(db', calls[c].codigo_escrow) = "FINALIZADO"]_vars

\* C4: a release call that read a record whose status is FINALIZADO or
\* CANCELADO has returned the matching refusal, has made no custodian call
\* and has written nothing to the store.
C4_TerminalRecusado ==
    \A c \in Calls :
        (/\ calls[c].op \in Liberacoes
         /\ calls[c].escrow_db # <<>>
         /\ StatusLido(calls[c]) \in {"FINALIZADO", "CANCELADO"})
            => /\ calls[c].pc = "done"
               /\ ~calls[c].resultado.sucesso
               /\ calls[c].resultado.erro =
                      (IF StatusLido(calls[c]) = "CANCELADO" THEN ErroCancelado
                       ELSE ErroFinalizado)
               /\ calls[c].resultado.status_atual = StatusLido(calls[c])
               /\ calls[c].psp_calls = 0
               /\ calls[c].db_writes = 0

\* A release call was refused on a record that an earlier releaseProduct
\* finalised, and another on a cancelled record.
C4_Witness ==
    \E c \in Calls :
        /\ calls[c].op \in Liberacoes
        /\ calls[c].pc = "done"
        /\ calls[c].escrow_db # <<>>
        /\ StatusLido(calls[c]) = "FINALIZADO"
        /\ calls[c].resultado.erro = ErroFinalizado
        /\ \E d \in Calls : /\ calls[d].op = "produto"
                            /\ calls[d].resultado.sucesso
                            /\ calls[d].codigo_escrow = calls[c].codigo_escrow

\* C5: a release call arriving with a code that matches no record of the store
\* ends in that very step, with no custodian call and no write, and the store
\* is as it was; when the store answers the lookup the call returns the
\* not-found failure, and when the lookup raises the exception leaves the
\* call.
C5_CodigoDesconhecido ==
    [][\A c \in Calls :
          /\ (/\ calls[c].pc = "idle"
              /\ calls'[c].op \in Liberacoes
              /\ Linhas(db, calls'[c].codigo_escrow) = {})
                 => /\ calls'[c].pc = "done"
                    /\ ~calls'[c].resultado.sucesso
                    /\ calls'[c].psp_calls = 0
                    /\ calls'[c].db_writes = 0
                    /\ db' = db
          /\ \A codigo_escrow \in CodigosPedidos :
                (/\ calls[c].pc = "idle"
                 /\ calls'[c].pc # "idle"
                 /\ Linhas(db, codigo_escrow) = {})
                   => /\ (\/ LiberarTaxaValida(c, codigo_escrow, TRUE)
                          \/ LiberarProdutoValida(c, codigo_escrow, TRUE))
                         => /\ ~calls'[c].resultado.levantou
                            /\ calls'[c].resultado.erro = ErroNaoEncontrado
                            /\ calls'[c].resultado.codigo_escrow = codigo_escrow
                      /\ (\/ LiberarTaxaValida(c, codigo_escrow, FALSE)
                          \/ LiberarProdutoValida(c, codigo_escrow, FALSE))
                         => calls'[c].resultado = Levantou]_vars

\* A release of an unknown code was answered while the store held a record.
C5_Witness ==
    \E c \in Calls :
        /\ calls[c].op \in Liberacoes
        /\ calls[c].pc = "done"
        /\ calls[c].codigo_escrow = CodigoDesconhecido
        /\ calls[c].resultado.erro = ErroNaoEncontrado
        /\ db # <<>>

\* A release call whose custodian request failed (a status code other than
\* 200, or an exception) has returned a failure carrying the custodian's
\* error and has not written to the store.
C6_FalhaPspInv ==
    \A c \in Calls :
        (calls[c].op \in Liberacoes /\ Recusa(calls[c].response))
            => /\ calls[c].pc = "done"
               /\ ~calls[c].resultado.sucesso
               /\ calls[c].resultado.erro =
                      (IF calls[c].response.tipo = "excecao" THEN "str(e)"
                       ELSE calls[c].response.corpo)
               /\ calls[c].db_writes = 0

\* C6: a release call whose custodian request failed has returned a failure
\* carrying the custodian's error and has not written to the store; the step
\* that got the failure leaves the store as it was, and a call that met no
\* other call leaves the status it read.
C6_FalhaPspSemEscrita ==
    /\ []C6_FalhaPspInv
    /\ [][\A c \in Calls :
            (/\ calls[c].op \in Liberacoes
             /\ calls[c].pc = "psp_release"
             /\ Recusa(calls'[c].response))
                => /\ db' = db
                   /\ calls[c].solo =>
                        StatusPersistido(db', calls[c].codigo_escrow)
                            = StatusLido(calls[c])]_vars

\* Both release operations have had a custodian failure: one by status code,
\* one by exception.
C6_Witness ==
    /\ \E c \in Calls : /\ calls[c].op = "taxa"
                        /\ calls[c].pc = "done"
                        /\ calls[c].response.tipo = "excecao"
    /\ \E c \in Calls : /\ calls[c].op = "produto"
                        /\ calls[c].pc = "done"
                        /\ calls[c].response.tipo = "http"
                        /\ calls[c].response.status_code # 200

\* C7: once an acquirer has approved, it is the last acquirer the call asked,
\* the call is past the routing loop, and the call returns that acquirer's name
\* and transaction reference.
C7_RetornaNoPrimeiroSucesso ==
    \A c \in Calls :
        (calls[c].op = "pagamento" /\ Aprovou(calls[c]))
            => /\ calls[c].pc \in {"psp_create", "db_create", "db_refresh", "done"}
               /\ calls[c].tentativas =
                      Append(calls[c].falhas, calls[c].resposta.adquirente)
               /\ calls[c].pc = "done" =>
                      /\ calls[c].resultado.sucesso
                      /\ calls[c].resultado.adquirente = calls[c].resposta.adquirente
                      /\ calls[c].resultado.transaction_id
                             = calls[c].resposta.transaction_id

\* A payment approved by the first acquirer has returned, the second acquirer
\* never asked.
C7_Witness ==
    \E c \in Calls :
        /\ calls[c].op = "pagamento"
        /\ calls[c].pc = "done"
        /\ calls[c].resultado.sucesso
        /\ calls[c].tentativas = <<roteamento_prioritario[1]>>

\* C8: the acquirers asked are a prefix of the configured list, each asked only
\* after all before it failed, and a returned call is the denial exactly when
\* every configured acquirer failed.
C8_NegadoSseTodosFalham ==
    \A c \in Calls :
        calls[c].op = "pagamento"
            => /\ Len(calls[c].tentativas) <= Len(roteamento_prioritario)
               /\ calls[c].tentativas =
                      SubSeq(roteamento_prioritario, 1, Len(calls[c].tentativas))
               /\ Len(calls[c].falhas) <= Len(calls[c].tentativas)
               /\ Len(calls[c].tentativas) <= Len(calls[c].falhas) + 1
               /\ calls[c].falhas =
                      SubSeq(calls[c].tentativas, 1, Len(calls[c].falhas))
               /\ calls[c].pc = "done" =>
                      ((calls[c].resultado = RetornoNegado)
                          <=> (calls[c].falhas = roteamento_prioritario))
               /\ calls[c].pc = "done" =>
                      (calls[c].resultado.sucesso <=> Aprovou(calls[c]))

\* One payment was denied after both acquirers failed, and one was approved by
\* the second acquirer after the first failed.
C8_Witness ==
    /\ \E c \in Calls : /\ calls[c].op = "pagamento"
                        /\ calls[c].pc = "done"
                        /\ calls[c].resultado = RetornoNegado
                        /\ calls[c].falhas = roteamento_prioritario
    /\ \E c \in Calls : /\ calls[c].op = "pagamento"
                        /\ calls[c].pc = "done"
                        /\ calls[c].resultado.sucesso
                        /\ calls[c].tentativas = roteamento_prioritario

\* A payment call in which every acquirer failed has returned the denial, with
\* no escrow code, no custodian call and no write.
C9_NegadoInv ==
    \A c \in Calls :
        (calls[c].op = "pagamento" /\ calls[c].falhas = roteamento_prioritario)
            => /\ calls[c].pc = "done"
               /\ ~calls[c].resultado.sucesso
               /\ calls[c].resultado.status = "negado"
               /\ calls[c].resultado.codigo_escrow = Ausente
               /\ calls[c].codigo_escrow = NoneVal
               /\ calls[c].psp_calls = 0
               /\ calls[c].db_writes = 0

\* C9: a payment call in which every acquirer failed has returned the denial,
\* with no escrow code, no custodian call and no write; and no step of a call
\* that is still in the routing loop changes the store.
C9_NegadoSemRegistro ==
    /\ []C9_NegadoInv
    /\ [][\A c \in Calls :
            (/\ calls[c].pc \in {"idle", "adquirente"}
             /\ calls'[c].op = "pagamento"
             /\ calls'[c].pc \in {"adquirente", "done"}
             /\ calls'[c] # calls[c])
                => db' = db]_vars

\* A payment was denied while the store held a record and another call was
\* in flight.
C9_Witness ==
    \E c \in Calls :
        /\ calls[c].op = "pagamento"
        /\ calls[c].pc = "done"
        /\ calls[c].resultado = RetornoNegado
        /\ \E d \in EmCurso : d # c
        /\ db # <<>>

\* C10: a returned payment call reports success exactly when the store holds
\* the record of that payment: its transaction id under the returned code.
C10_RegistroSseSucesso ==
    \A c \in Calls :
        (calls[c].op = "pagamento" /\ calls[c].pc = "done")
            => (calls[c].resultado.sucesso
                  <=> \E k \in 1..Len(db) :
                        /\ db[k].codigo_escrow = calls[c].resultado.codigo_escrow
                        /\ db[k].transaction_id = calls[c].resultado.transaction_id)

\* C11: in every reachable state no two rows of the store carry the same
\* codigo_escrow, whatever codes the custodian put in its answers.
C11_CodigoUnico ==
    \A j, k \in 1..Len(db) :
        j # k => db[j].codigo_escrow # db[k].codigo_escrow

\* Two payments were given the same code by the custodian and both went to
\* the store with it; the store holds that code once.
C11_Witness ==
    \E c, d \in Calls :
        /\ c # d
        /\ calls[c].op = "pagamento" /\ calls[d].op = "pagamento"
        /\ calls[c].pc = "done" /\ calls[d].pc = "done"
        /\ calls[c].codigo_escrow = "PSP_1" /\ calls[d].codigo_escrow = "PSP_1"
        /\ calls[c].db_writes = 1 /\ calls[d].db_writes = 1
        /\ Cardinality(Linhas(db, "PSP_1")) = 1

\* C12: any two payment calls that have returned success, whether they ran one
\* after the other or interleaved, returned different escrow codes.
C12_CodigosDistintos ==
    \A c, d \in Calls :
        (/\ c # d
         /\ calls[c].op = "pagamento" /\ calls[d].op = "pagamento"
         /\ calls[c].pc = "done" /\ calls[d].pc = "done"
         /\ calls[c].resultado.sucesso /\ calls[d].resultado.sucesso)
            => calls[c].resultado.codigo_escrow # calls[d].resultado.codigo_escrow

\* A call that came in through checkout and whose fee has been computed.
Tarifado(call) == call.checkout.rota /\ call.op = "pagamento"

\* C13: for every checkout request that passed validation, with either value
\* of the holder signal, the fee rate is TAXA_COM_TOKEN for a holder and
\* TAXA_SEM_TOKEN otherwise, the fee is exactly valor_produto * rate / 100, the
\* total is valor_produto plus the fee, and these are the amounts handed to
\* the gateway; 100.00 gives 2.00 and 102.00 at 2%, 5.00 and 105.00 at 5%,
\* and 10.005 gives 0.2001 and 0.50025, neither rounded.
C13_TaxaCalculada ==
    \A c \in Calls :
        Tarifado(calls[c])
            => LET k == calls[c].checkout
               IN  /\ k.dados.valor_produto.tipo = "numero"
                   /\ k.dados.valor_produto.valor > 0
                   /\ k.valor_produto = Escala * k.dados.valor_produto.valor
                   /\ k.percentual_taxa =
                          (IF k.is_token_holder THEN TAXA_COM_TOKEN
                           ELSE TAXA_SEM_TOKEN)
                   /\ k.valor_taxa * 100 = k.valor_produto * k.percentual_taxa
                   /\ k.valor_total = k.valor_produto + k.valor_taxa
                   /\ calls[c].pedido.valor_taxa = k.valor_taxa
                   /\ calls[c].pedido.valor_produto = k.valor_produto
                   /\ calls[c].pedido.valor_total = k.valor_total
                   /\ (k.valor_produto = 100000000 /\ k.is_token_holder)
                          => (k.valor_taxa = 2000000 /\ k.valor_total = 102000000)
                   /\ (k.valor_produto = 100000000 /\ ~k.is_token_holder)
                          => (k.valor_taxa = 5000000 /\ k.valor_total = 105000000)
                   /\ (k.valor_produto = 10005000 /\ k.is_token_holder)
                          => (k.valor_taxa = 200100 /\ k.valor_total = 10205100)
                   /\ (k.valor_produto = 10005000 /\ ~k.is_token_holder)
                          => (k.valor_taxa = 500250 /\ k.valor_total = 10505250)

\* A holder's checkout of 100.00 was charged 2.00, 102.00 in all, and has
\* returned.
C13_Witness ==
    \E c \in Calls :
        /\ Tarifado(calls[c])
        /\ calls[c].pc = "done"
        /\ calls[c].checkout.is_token_holder
        /\ calls[c].checkout.dados.valor_produto = Numero(1000000)
        /\ calls[c].checkout.valor_taxa = 2000000
        /\ calls[c].checkout.valor_total = 102000000

\* C14: a checkout whose oracle was unavailable, rejected the address or
\* failed to read the balance treats the buyer as no holder, applies
\* TAXA_SEM_TOKEN and hands the payment to the gateway, and once returned it
\* answers 200 exactly when an acquirer approved; a valid checkout without a
\* wallet address applies TAXA_SEM_TOKEN and never calls the oracle.
C14_OraculoFalhou ==
    \A c \in Calls :
        LET k == calls[c].checkout
        IN  /\ (k.rota /\ k.web3_erro # Ausente)
                  => /\ ~k.is_token_holder
                     /\ k.percentual_taxa = TAXA_SEM_TOKEN
                     /\ k.erro = Ausente
                     /\ calls[c].op = "pagamento"
                     /\ calls[c].pc \in {"adquirente", "psp_create", "db_create", "db_refresh", "done"}
                     /\ calls[c].pc = "done" =>
                           /\ Len(calls[c].tentativas) >= 1
                           /\ (StatusCheckout(calls[c]) = 200) <=> Aprovou(calls[c])
            /\ (k.rota /\ k.erro = Ausente /\ k.dados.endereco_carteira = NoneVal)
                  => /\ k.verificacoes = 0
                     /\ k.consultas = 0
                     /\ ~k.is_token_holder
                     /\ k.percentual_taxa = TAXA_SEM_TOKEN
                     /\ calls[c].op = "pagamento"

\* A checkout whose balance read failed was charged at the standard rate, was
\* approved and answered 200.
C14_Witness ==
    \E c \in Calls :
        /\ calls[c].checkout.rota
        /\ calls[c].pc = "done"
        /\ calls[c].checkout.web3_erro = ErroLeitura
        /\ calls[c].checkout.consultas = 1
        /\ calls[c].checkout.percentual_taxa = TAXA_SEM_TOKEN
        /\ calls[c].resultado.sucesso
        /\ StatusCheckout(calls[c]) = 200

\* The body carries a product amount that is a number and not positive.
ValorNaoPositivo(dados) ==
    dados.valor_produto.tipo = "numero" /\ dados.valor_produto.valor <= 0

\* The body is one with a non-positive product amount or without a supplier
\* id (a body that is no object has none).
SemValorOuFornecedor(dados) ==
    ValorNaoPositivo(dados) \/ dados.id_fornecedor = NoneVal

\* A checkout request whose product amount is not positive or whose supplier
\* id is missing has returned an error and has called neither the oracle, nor
\* an acquirer, nor the custodian, nor the store.  The error is a validation
\* error answered 400 when the body is an object whose valor_produto is a
\* number (or whose card token is missing); a body that is no object, and one
\* with a card token whose valor_produto float() does not take, is answered
\* 500 with the text of the exception.
C15_RejeitadoInv ==
    \A c \in Calls :
        LET k == calls[c].checkout
        IN  (k.rota /\ SemValorOuFornecedor(k.dados))
               => /\ calls[c].pc = "done"
                  /\ k.erro = (IF ~k.dados.objeto THEN ErroNoProcessamento
                               ELSE IF k.dados.card_token = NoneVal THEN ErroCardToken
                               ELSE IF k.dados.valor_produto.tipo # "numero"
                               THEN ErroNoProcessamento
                               ELSE IF k.dados.valor_produto.valor <= 0
                               THEN ErroValorProduto
                               ELSE ErroFornecedor)
                  /\ StatusCheckout(calls[c]) =
                        (IF k.dados.objeto /\ (\/ k.dados.card_token = NoneVal
                                               \/ k.dados.valor_produto.tipo = "numero")
                         THEN 400 ELSE 500)
                  /\ ~calls[c].resultado.sucesso
                  /\ k.verificacoes = 0
                  /\ k.consultas = 0
                  /\ calls[c].tentativas = <<>>
                  /\ calls[c].psp_calls = 0
                  /\ calls[c].db_writes = 0

\* C15: a checkout request whose product amount is not positive or whose
\* supplier id is missing is rejected in the step it arrives, before any
\* external call: no oracle query, no acquirer request, no custodian request,
\* no write, and the store is as it was; it is rejected with a validation
\* error (400) when its body is an object whose valor_produto is a number,
\* and with the processing error (500) when float() or dados.get raises.
C15_RejeitadoAntes ==
    /\ []C15_RejeitadoInv
    /\ [][\A c \in Calls :
            (/\ calls[c].pc = "idle"
             /\ calls'[c].checkout.rota
             /\ SemValorOuFornecedor(calls'[c].checkout.dados))
                => /\ calls'[c].pc = "done"
                   /\ db' = db
                   /\ uuids' = uuids]_vars

\* A request with a card token, a positive amount and a wallet address but no
\* supplier id was rejected with 400.
C15_Witness ==
    \E c \in Calls :
        /\ calls[c].checkout.rota
        /\ calls[c].pc = "done"
        /\ calls[c].checkout.dados.card_token # NoneVal
        /\ calls[c].checkout.dados.valor_produto = Numero(1000000)
        /\ calls[c].checkout.dados.id_fornecedor = NoneVal
        /\ calls[c].checkout.dados.endereco_carteira \in EnderecosValidos
        /\ calls[c].checkout.erro = ErroFornecedor
        /\ StatusCheckout(calls[c]) = 400

\* The codes _registrar_escrow generates.
CodigosLocais == {CodigoLocal(c) : c \in Calls}

\* The custodian's answer to /escrow/create is a failure: a status code
\* other than 200/201, or an exception.
FalhaNoRegistro(response) ==
    ~(response.tipo = "http" /\ response.status_code \in {200, 201})

\* The custodian accepted the registration and its answer carries an escrow
\* code of its own.
CodigoProprio(response) ==
    ~FalhaNoRegistro(response) /\ response.corpo # Ausente

\* C16: when an acquirer approved and the custodian's /escrow/create failed
\* (a status code other than 200/201, or an exception), the call goes to the
\* store with the locally generated code; the write step of a call that
\* holds a local code leaves a PENDENTE record under that code, and the
\* call, when it returns, returns success with that code.
C16_PersisteComCodigoLocal ==
    [][\A c \in Calls :
          /\ \A response \in RespostasPspCriar :
                (/\ calls[c].pc = "psp_create"
                 /\ calls'[c].pc # "psp_create"
                 /\ FalhaNoRegistro(response)
                 /\ RegistrarNoPsp(c, response))
                   => /\ calls'[c].pc = "db_create"
                      /\ calls'[c].codigo_escrow = CodigoLocal(c)
          /\ (/\ calls[c].op = "pagamento"
              /\ calls[c].pc = "db_create"
              /\ calls'[c].pc # "db_create"
              /\ calls[c].codigo_escrow \in CodigosLocais)
                 => /\ calls'[c].codigo_escrow = calls[c].codigo_escrow
                    /\ \E k \in 1..Len(db') :
                          /\ db'[k].codigo_escrow = calls[c].codigo_escrow
                          /\ db'[k].status_escrow = "PENDENTE"
                          /\ db'[k].transaction_id = calls[c].resposta.transaction_id
          /\ (/\ calls[c].op = "pagamento"
              /\ calls[c].pc \in {"db_create", "db_refresh"}
              /\ calls[c].codigo_escrow \in CodigosLocais
              /\ calls'[c].pc = "done")
                 => /\ calls'[c].resultado.sucesso
                    /\ calls'[c].resultado.codigo_escrow = calls[c].codigo_escrow]_vars

\* C17: when the custodian accepts the registration and returns a code of its
\* own, that code has replaced the local one when the call goes to the store,
\* before the record is written; the row a call writes, if the store takes
\* it, carries the code the call holds, the call keeps that code until it
\* returns and returns it to the caller, and no step ever changes the
\* codigo_escrow of a row or removes a row.
C17_CodigoDoPsp ==
    [][/\ Len(db') >= Len(db)
       /\ \A k \in 1..Len(db) : db'[k].codigo_escrow = db[k].codigo_escrow
       /\ \A c \in Calls :
             /\ \A response \in RespostasPspCriar :
                   (/\ calls[c].pc = "psp_create"
                    /\ calls'[c].pc # "psp_create"
                    /\ CodigoProprio(response)
                    /\ RegistrarNoPsp(c, response))
                      => /\ calls'[c].pc = "db_create"
                         /\ calls'[c].codigo_escrow = response.corpo
                         /\ calls'[c].codigo_escrow # CodigoLocal(c)
                         /\ db' = db
             /\ (/\ calls[c].op = "pagamento"
                 /\ calls[c].pc \in {"db_create", "db_refresh"})
                    => /\ calls'[c].codigo_escrow = calls[c].codigo_escrow
                       /\ calls'[c].pc # calls[c].pc =>
                             \A k \in (Len(db) + 1)..Len(db') :
                                db'[k].codigo_escrow = calls[c].codigo_escrow
                       /\ calls'[c].pc = "done" =>
                             calls'[c].resultado.codigo_escrow
                                 = calls[c].codigo_escrow]_vars

\* A payment returned the custodian's code, its record is in the store under
\* that code, and a later release has finalised the record.
C17_Witness ==
    \E c \in Calls :
        /\ calls[c].op = "pagamento"
        /\ calls[c].pc = "done"
        /\ calls[c].resultado.codigo_escrow = "PSP_1"
        /\ \E k \in 1..Len(db) :
              /\ db[k].codigo_escrow = "PSP_1"
              /\ db[k].transaction_id = calls[c].resultado.transaction_id
              /\ db[k].status_escrow = "FINALIZADO"

\* A releaseProduct call that read its record in status PENDENTE.
ProdutoAntesDaTaxa(call) ==
    /\ call.op = "produto"
    /\ call.escrow_db # <<>>
    /\ StatusLido(call) = "PENDENTE"

\* C18: a releaseProduct call that read status PENDENTE is not refused: it
\* prints the out-of-order warning and asks the custodian for the supplier
\* release; when the custodian accepts, the step that ends the call leaves
\* FINALIZADO persisted (never TAXA_LIBERADA) and returns success.
C18_ProdutoAntesDaTaxa ==
    /\ [](\A c \in Calls :
            ProdutoAntesDaTaxa(calls[c])
                => /\ calls[c].aviso
                   /\ calls[c].pc \in {"psp_release", "db_select", "db_update", "done"}
                   /\ calls[c].pc # "psp_release" => calls[c].psp_calls = 1)
    /\ [][\A c \in Calls :
            (/\ ProdutoAntesDaTaxa(calls[c])
             /\ calls[c].pc \in {"db_select", "db_update"}
             /\ calls'[c].pc = "done")
                => /\ Aceite(calls[c].response)
                   /\ calls'[c].resultado.sucesso
                   /\ calls'[c].resultado.novo_status = "FINALIZADO"
                   /\ StatusPersistido(db', calls[c].codigo_escrow) = "FINALIZADO"]_vars

\* C19: when a releaseFee call and a releaseProduct call on the same code ran
\* while another call was in flight, both read PENDENTE and both had their
\* release accepted by the custodian, the status persisted when the second of
\* them returns is FINALIZADO, whichever of the two wrote last.  Stated for
\* the runs in which FINALIZADO is persisted before that last step, so that
\* only an overwrite, not a failed commit, can break it.
C19_SemAtualizacaoPerdida ==
    [][\A c, d \in Calls :
          (/\ calls[c].op = "taxa" /\ calls[d].op = "produto"
           /\ calls[c].codigo_escrow = calls[d].codigo_escrow
           /\ calls[c].escrow_db # <<>> /\ calls[d].escrow_db # <<>>
           /\ StatusLido(calls[c]) = "PENDENTE"
           /\ StatusLido(calls[d]) = "PENDENTE"
           /\ calls'[c].pc = "done" /\ calls'[d].pc = "done"
           /\ calls[c].pc # "done" \/ calls[d].pc # "done"
           /\ ~calls[c].solo \/ ~calls[d].solo
           /\ StatusPersistido(db, calls[c].codigo_escrow) = "FINALIZADO"
           /\ calls'[c].resultado.sucesso /\ calls'[d].resultado.sucesso)
              => StatusPersistido(db', calls[c].codigo_escrow) = "FINALIZADO"]_vars

\* C20: a consultation is one step that leaves the store, the clock and the
\* code generator as they were, asks no acquirer and no custodian and writes
\* nothing; when the store answers the query it answers 200 with every
\* column of the matching row, or 404 when no row carries the code; the only
\* other answer is the 500 of a query that raised.
C20_ConsultaSoLe ==
    [][\A c \in Calls :
          (calls[c].pc = "idle" /\ calls'[c].op = "consulta")
              => /\ calls'[c].pc = "done"
                 /\ db' = db
                 /\ relogio' = relogio
                 /\ uuids' = uuids
                 /\ calls'[c].tentativas = <<>>
                 /\ calls'[c].psp_calls = 0
                 /\ calls'[c].db_writes = 0
                 /\ calls'[c].checkout.consultas = 0
                 /\ calls'[c].consulta.status \in
                        {500, IF \E k \in 1..Len(db) :
                                    db[k].codigo_escrow = calls'[c].codigo_escrow
                              THEN 200 ELSE 404}
                 /\ calls'[c].consulta.status = 500
                       => calls'[c].consulta.corpo = ErroAoConsultar
                 /\ calls'[c].consulta.status = 404
                       => calls'[c].consulta.corpo = ErroConsulta
                 /\ calls'[c].consulta.status = 200
                       => \E k \in 1..Len(db) :
                             /\ db[k].codigo_escrow = calls'[c].codigo_escrow
                             /\ calls'[c].consulta.corpo = db[k]]_vars

\* A consultation answered the record that a releaseFee call had moved from
\* PENDENTE to TAXA_LIBERADA.
C20_Witness ==
    \E c, d \in Calls :
        /\ calls[c].op = "consulta"
        /\ calls[c].pc = "done"
        /\ calls[c].consulta.status = 200
        /\ calls[c].consulta.corpo.status_escrow = "TAXA_LIBERADA"
        /\ calls[d].op = "taxa"
        /\ calls[d].resultado.sucesso
        /\ calls[d].codigo_escrow = calls[c].codigo_escrow
        /\ StatusLido(calls[d]) = "PENDENTE"

\* A release call past its guards that has not written yet.
PassouGuarda(call) ==
    /\ call.op \in Liberacoes
    /\ call.pc \in {"psp_release", "db_select", "db_update"}
    /\ call.db_writes = 0

\* C21: the guards of a release look at the record only: a release call that
\* arrives on a code whose persisted status is PENDENTE or TAXA_LIBERADA, and
\* whose read of the record the store answers, passes them and goes on to the
\* custodian, whatever other release calls on that code are in flight past
\* their own guards; nothing is written or asked of the custodian in that
\* step.
C21_GuardaNaoAtomica ==
    [][\A c \in Calls :
          (/\ calls[c].pc = "idle"
           /\ calls'[c].op \in Liberacoes
           /\ \/ LiberarTaxaValida(c, calls'[c].codigo_escrow, TRUE)
              \/ LiberarProdutoValida(c, calls'[c].codigo_escrow, TRUE)
           /\ StatusPersistido(db, calls'[c].codigo_escrow)
                  \in {"PENDENTE", "TAXA_LIBERADA"})
              => /\ calls'[c].pc = "psp_release"
                 /\ StatusLido(calls'[c]) = StatusPersistido(db, calls'[c].codigo_escrow)
                 /\ calls'[c].psp_calls = 0
                 /\ calls'[c].db_writes = 0
                 /\ db' = db]_vars

\* Two release calls on the same code have both read the record and passed
\* the guards, both have had their release accepted by the custodian, and
\* neither has written yet.
C21_Witness ==
    \E c, d \in Calls :
        /\ c # d
        /\ PassouGuarda(calls[c]) /\ PassouGuarda(calls[d])
        /\ calls[c].codigo_escrow = calls[d].codigo_escrow
        /\ calls[c].pc = "db_update" /\ calls[d].pc = "db_update"
        /\ calls[c].psp_calls = 1 /\ calls[d].psp_calls = 1
        /\ StatusLido(calls[c]) = StatusLido(calls[d])
        /\ StatusPersistido(db, calls[c].codigo_escrow) = StatusLido(calls[c])

\* The number of times an acquirer occurs among the requests of a call.
Vezes(tentativas, nome_adquirente) ==
    Cardinality({k \in 1..Len(tentativas) : tentativas[k] = nome_adquirente})

\* C22: within one payment call the acquirer requests are made one at a time
\* and never repeated: the call waits for at most one acquirer, the one at
\* position i, all requests before it have been answered, no acquirer has been
\* asked twice, and a call that has made as many requests as there are
\* configured acquirers is out of the routing loop.
C22_SequencialSemRepeticao ==
    \A c \in Calls :
        calls[c].op = "pagamento"
            => /\ \A k \in 1..Len(roteamento_prioritario) :
                     Vezes(calls[c].tentativas, roteamento_prioritario[k]) <= 1
               /\ calls[c].pc = "adquirente"
                     => /\ calls[c].i = Len(calls[c].tentativas) + 1
                        /\ calls[c].i <= Len(roteamento_prioritario)
                        /\ Vezes(calls[c].tentativas,
                                 roteamento_prioritario[calls[c].i]) = 0
               /\ calls[c].pc # "adquirente"
                     => calls[c].i = Len(calls[c].tentativas)
               /\ Len(calls[c].tentativas) = Len(roteamento_prioritario)
                     => calls[c].pc \in {"psp_create", "db_create", "db_refresh", "done"}

\* Two payment calls ran at the same time; one asked both acquirers, each
\* of them once, and has returned; the other has asked both and is still in
\* flight.
C22_Witness ==
    \E c, d \in Calls :
        /\ c # d
        /\ calls[c].op = "pagamento" /\ calls[d].op = "pagamento"
        /\ calls[c].pc = "done" /\ calls[d].pc \in {"psp_create", "db_create", "db_refresh"}
        /\ ~calls[d].solo
        /\ calls[c].tentativas = roteamento_prioritario
        /\ calls[d].tentativas = roteamento_prioritario

\* C23: when the write of the record fails in an approved payment (the
\* commit raises and the store is left as it was), the call returns in that
\* step, still with success, the approving acquirer's name, its transaction
\* id and the escrow code, and makes no further request to an acquirer or to
\* the custodian, in that step or at any time after it has returned; the
\* same when criar_escrow raises after its commit, in session.refresh, with
\* the record written.
C23_FalhaDeEscritaEngolida ==
    [][\A c \in Calls :
          /\ (/\ calls[c].op = "pagamento"
              /\ calls[c].pc = "db_create"
              /\ RegistrarNoBanco(c, FALSE))
                => /\ calls'[c].resultado =
                          RetornoAprovado(calls[c].resposta.adquirente,
                                          calls[c].resposta.transaction_id,
                                          calls[c].codigo_escrow)
                   /\ calls'[c].resultado.sucesso
                   /\ calls'[c].db_writes = calls[c].db_writes + 1
                   /\ calls'[c].tentativas = calls[c].tentativas
                   /\ calls'[c].psp_calls = calls[c].psp_calls
          /\ (/\ calls[c].op = "pagamento"
              /\ calls[c].pc = "db_refresh"
              /\ RegistrarRefresh(c, FALSE))
                => /\ calls'[c].pc = "done"
                   /\ db' = db
                   /\ calls'[c].resultado =
                          RetornoAprovado(calls[c].resposta.adquirente,
                                          calls[c].resposta.transaction_id,
                                          calls[c].codigo_escrow)
                   /\ calls'[c].db_writes = calls[c].db_writes
                   /\ calls'[c].tentativas = calls[c].tentativas
                   /\ calls'[c].psp_calls = calls[c].psp_calls
          /\ (calls[c].op = "pagamento" /\ calls[c].pc = "done")
                => /\ calls'[c].pc = "done"
                   /\ calls'[c].tentativas = calls[c].tentativas
                   /\ calls'[c].psp_calls = calls[c].psp_calls]_vars

\* A payment approved by the second acquirer returned success with a local
\* code that no record of the store carries: its write failed.
C23_Witness ==
    \E c \in Calls :
        /\ calls[c].op = "pagamento"
        /\ calls[c].pc = "done"
        /\ calls[c].resultado.sucesso
        /\ calls[c].resultado.adquirente = roteamento_prioritario[2]
        /\ calls[c].db_writes = 1
        /\ calls[c].resultado.codigo_escrow \in CodigosLocais
        /\ Linhas(db, calls[c].resultado.codigo_escrow) = {}

\* The acquirer's decline, as it reaches the router.
Recusado == Http(402, "recusado")

\* C24: a request to an acquirer that ends in a timeout or transport failure
\* leaves the call exactly where a decline of the same acquirer would have
\* left it (next acquirer, or the denial after the last one; no custodian
\* request, no write, store untouched), except for the error payload, which
\* carries status code 500 and the text of the exception where the decline
\* carries the acquirer's status code and body.
C24_FalhaDeTransporteComoRecusa ==
    [][\A c \in Calls :
          TentarAdquirente(c, Excecao)
              => LET nome == roteamento_prioritario[calls[c].i]
                     r    == EnviarParaAdquirente(nome, Recusado)
                     rec  == Roteia([calls[c] EXCEPT
                                       !.cobrado = calls[c].pedido.valor_total],
                                    r.sucesso, r.resposta)
                     exc  == calls'[c]
                 IN  /\ [exc EXCEPT !.resposta = rec.resposta] = rec
                     /\ ~exc.sucesso
                     /\ exc.resposta.status_code = 500
                     /\ exc.resposta.error = Excecao.corpo
                     /\ rec.resposta.status_code = Recusado.status_code
                     /\ rec.resposta.error = Recusado.corpo
                     /\ exc.falhas = Append(calls[c].falhas, nome)
                     /\ IF calls[c].i < Len(roteamento_prioritario)
                        THEN exc.pc = "adquirente" /\ exc.i = calls[c].i + 1
                        ELSE exc.pc = "done" /\ exc.resultado = RetornoNegado
                     /\ exc.psp_calls = 0 /\ exc.db_writes = 0
                     /\ db' = db]_vars

\* The first acquirer's request failed in transport and the call now waits
\* for the second acquirer, holding the payload tagged 500.
C24_Witness ==
    \E c \in Calls :
        /\ calls[c].op = "pagamento"
        /\ calls[c].pc = "adquirente"
        /\ calls[c].i = 2
        /\ calls[c].falhas = <<roteamento_prioritario[1]>>
        /\ calls[c].resposta.status_code = 500
        /\ calls[c].resposta.error = Excecao.corpo

\* The columns of a record that identify it and its amounts.
Identidade(linha) ==
    <<linha.id, linha.codigo_escrow, linha.transaction_id, linha.id_fornecedor,
      linha.valor_taxa, linha.valor_produto, linha.data_criacao>>

\* C25: no step removes a record from the store or changes a persisted
\* record's id, code, transaction id, supplier id, fee amount or product
\* amount; a record changes only in the store write of a release, and then
\* only in its status and its update time.
C25_RegistroImutavel ==
    [][/\ Len(db') >= Len(db)
       /\ \A k \in 1..Len(db) :
             /\ Identidade(db'[k]) = Identidade(db[k])
             /\ db'[k] # db[k]
                   => \E c \in Calls :
                        /\ calls[c].op \in Liberacoes
                        /\ calls[c].pc = "db_update"
                        /\ calls'[c].pc = "done"
                        /\ db[k].codigo_escrow = calls[c].codigo_escrow
                        /\ db'[k] = [db[k] EXCEPT
                                       !.status_escrow = db'[k].status_escrow,
                                       !.data_atualizacao = calls[c].sessao.agora]]_vars

\* A record whose status a release has rewritten after its creation, with the
\* release returned.
C25_Witness ==
    \E k \in 1..Len(db), c \in Calls :
        /\ db[k].data_atualizacao > db[k].data_criacao
        /\ db[k].status_escrow = "FINALIZADO"
        /\ calls[c].op = "produto"
        /\ calls[c].pc = "done"
        /\ calls[c].db_writes = 1
        /\ calls[c].codigo_escrow = db[k].codigo_escrow

\* The rows the payments of this run have written.
Criados == {k \in 1..Len(db) : db[k].codigo_escrow # CodigoInicial}

\* C26: whenever two payment calls carrying the same transaction id, supplier
\* and amounts have both returned success, the store holds two distinct
\* records written by them.
C26_DoisRegistros ==
    \A c, d \in Calls :
        (/\ c # d
         /\ calls[c].op = "pagamento" /\ calls[d].op = "pagamento"
         /\ calls[c].pc = "done" /\ calls[d].pc = "done"
         /\ calls[c].resultado.sucesso /\ calls[d].resultado.sucesso
         /\ calls[c].pedido = calls[d].pedido
         /\ calls[c].resultado.transaction_id = calls[d].resultado.transaction_id)
            => /\ Cardinality(Criados) >= 2
               /\ \E j, k \in Criados :
                     /\ j # k
                     /\ db[j].codigo_escrow = calls[c].resultado.codigo_escrow
                     /\ db[k].codigo_escrow = calls[d].resultado.codigo_escrow

\* Two payments with the same transaction id, supplier and amounts have both
\* been recorded: the store holds two rows that differ in id and code only.
C26_DoisIguais ==
    \E j, k \in Criados :
        /\ j # k
        /\ db[j].transaction_id = db[k].transaction_id
        /\ db[j].id_fornecedor = db[k].id_fornecedor
        /\ db[j].valor_taxa = db[k].valor_taxa
        /\ db[j].valor_produto = db[k].valor_produto

\* C27: a releaseFee call that read status TAXA_LIBERADA is never refused by
\* the guards: it is at, or past, its own request to the custodian; once the
\* custodian has answered 200 it goes on to atualizar_status with
\* TAXA_LIBERADA and returns success with that status, and the store holds
\* TAXA_LIBERADA after it, whether the call ran alone on a record already
\* released or among other calls, as long as no releaseProduct call on the
\* same code has made its write (then it holds FINALIZADO or TAXA_LIBERADA).
C27_TaxaLiberadaDeNovo ==
    \A c \in Calls :
        (/\ calls[c].op = "taxa"
         /\ calls[c].escrow_db # <<>>
         /\ StatusLido(calls[c]) = "TAXA_LIBERADA")
            => /\ calls[c].pc \in {"psp_release", "db_select", "db_update", "done"}
               /\ calls[c].pc = "psp_release" => calls[c].psp_calls = 0
               /\ calls[c].pc # "psp_release" => calls[c].psp_calls = 1
               /\ calls[c].pc \in {"db_select", "db_update"}
                     => Aceite(calls[c].response)
               /\ calls[c].pc = "done"
                     => IF Aceite(calls[c].response)
                        THEN /\ calls[c].db_writes = 1
                             /\ calls[c].resultado =
                                   RetornoLiberado(calls[c].codigo_escrow, "APP_BASE44",
                                                   calls[c].escrow_db[1].valor_taxa,
                                                   "TAXA_LIBERADA")
                             /\ StatusPersistido(db, calls[c].codigo_escrow)
                                   \in {"TAXA_LIBERADA", "FINALIZADO"}
                             /\ (\A d \in Calls \ {c} :
                                    ~(/\ calls[d].op = "produto"
                                      /\ calls[d].codigo_escrow = calls[c].codigo_escrow
                                      /\ calls[d].db_writes = 1))
                                   => StatusPersistido(db, calls[c].codigo_escrow)
                                          = "TAXA_LIBERADA"
                        ELSE /\ ~calls[c].resultado.sucesso
                             /\ calls[c].db_writes = 0

\* The custodian has released the fee of one code twice: a releaseFee that
\* read PENDENTE returned success, and so did a later one that read
\* TAXA_LIBERADA.
C27_Witness ==
    \E c, d \in Calls :
        /\ c # d
        /\ calls[c].op = "taxa" /\ calls[d].op = "taxa"
        /\ calls[c].pc = "done" /\ calls[d].pc = "done"
        /\ calls[c].codigo_escrow = calls[d].codigo_escrow
        /\ calls[c].resultado.sucesso /\ calls[d].resultado.sucesso
        /\ calls[c].psp_calls = 1 /\ calls[d].psp_calls = 1
        /\ StatusLido(calls[c]) = "PENDENTE"
        /\ StatusLido(calls[d]) = "TAXA_LIBERADA"
        /\ StatusPersistido(db, calls[d].codigo_escrow) = "TAXA_LIBERADA"

\* C28: once a releaseProduct call that read PENDENTE has returned success,
\* a releaseFee call arriving on the same code, whose read the store answers,
\* finds FINALIZADO persisted and is refused by the guard on terminal
\* statuses without any request to the custodian.
C28_TaxaNuncaLiberada ==
    [][\A c, d \in Calls :
          (/\ c # d
           /\ calls[c].op = "produto"
           /\ calls[c].pc = "done"
           /\ calls[c].resultado.sucesso
           /\ StatusLido(calls[c]) = "PENDENTE"
           /\ calls[d].pc = "idle"
           /\ calls'[d].op = "taxa"
           /\ calls'[d].codigo_escrow = calls[c].codigo_escrow
           /\ LiberarTaxaValida(d, calls[c].codigo_escrow, TRUE))
              => /\ StatusPersistido(db, calls[c].codigo_escrow) = "FINALIZADO"
                 /\ calls'[d].pc = "done"
                 /\ calls'[d].resultado = RetornoBloqueado("FINALIZADO")
                 /\ calls'[d].psp_calls = 0]_vars

\* C29: when a release call returns success while no other release of the
\* same code is past its guards, the status the store holds for the code is
\* the new status the call reports.
C29_StatusRelatadoPersistido ==
    [][\A c \in Calls :
          (/\ calls[c].op \in Liberacoes
           /\ calls[c].pc \in {"db_select", "db_update"}
           /\ calls'[c].pc = "done"
           /\ calls'[c].resultado.sucesso
           /\ \A d \in Calls \ {c} :
                 ~(/\ PassouGuarda(calls[d])
                   /\ calls[d].codigo_escrow = calls[c].codigo_escrow))
              => StatusPersistido(db', calls[c].codigo_escrow)
                     = calls'[c].resultado.novo_status]_vars

\* A payment call made by the checkout route.
DoCheckout(call) == call.checkout.rota /\ call.op = "pagamento"

\* The amounts of a checkout agree: what was charged at the acquirer, the
\* total and the two splits sent to the custodian, and what the response
\* reports.
C30_ValoresIguais ==
    \A c \in Calls :
        /\ (DoCheckout(calls[c]) /\ calls[c].pc = "db_create")
              => LET k == calls[c].checkout
                     p == calls[c].payload
                 IN  /\ calls[c].cobrado = p.total_amount
                     /\ p.total_amount = p.splits[1].amount + p.splits[2].amount
                     /\ Len(p.splits) = 2
                     /\ p.splits[1].recipient_id = "APP_BASE44"
                     /\ p.splits[1].amount = k.valor_taxa
                     /\ p.splits[2].recipient_id = k.dados.id_fornecedor
                     /\ p.splits[2].amount = k.valor_produto
        /\ (DoCheckout(calls[c]) /\ calls[c].pc = "done" /\ calls[c].resultado.sucesso)
              => /\ calls[c].psp_calls = 1
                 /\ calls[c].db_writes = 1
                 /\ calls[c].cobrado = calls[c].checkout.valor_total
                 /\ calls[c].cobrado = calls[c].checkout.valor_taxa
                                          + calls[c].checkout.valor_produto

\* C30: for every checkout whose payment is approved, the amount charged at
\* the acquirer is the total sent to the custodian and the sum of the two
\* splits, the split of APP_BASE44 is the fee and the supplier's split the
\* product amount; every successful checkout has made exactly that one
\* registration; and the record its write step commits, when the store
\* takes it, carries the fee and the product amount of the splits.
C30_TotalCobradoIgualSplits ==
    /\ []C30_ValoresIguais
    /\ [][\A c \in Calls :
            (/\ DoCheckout(calls[c])
             /\ calls[c].pc = "db_create"
             /\ calls'[c].pc # "db_create")
                => /\ calls'[c].pc = "done" => calls'[c].resultado.sucesso
                   /\ calls'[c].cobrado = calls[c].cobrado
                   /\ \A k \in (Len(db) + 1)..Len(db') :
                         /\ db'[k].codigo_escrow = calls[c].codigo_escrow
                         /\ db'[k].valor_taxa = calls[c].payload.splits[1].amount
                         /\ db'[k].valor_produto = calls[c].payload.splits[2].amount
                         /\ db'[k].id_fornecedor = calls[c].payload.splits[2].recipient_id
                         /\ db'[k].valor_taxa + db'[k].valor_produto
                               = calls[c].cobrado]_vars

\* A checkout of 10.005 at the standard rate has returned success: 10.50525
\* were charged, and the store holds its record with fee 0.50025 and product
\* 10.005.
C30_Witness ==
    \E c \in Calls, k \in 1..Len(db) :
        /\ DoCheckout(calls[c])
        /\ calls[c].pc = "done"
        /\ calls[c].resultado.sucesso
        /\ ~calls[c].checkout.is_token_holder
        /\ calls[c].cobrado = 10505250
        /\ db[k].codigo_escrow = calls[c].resultado.codigo_escrow
        /\ db[k].valor_taxa = 500250
        /\ db[k].valor_produto = 10005000

====
